---------------------------- MODULE Spec2Model ----------------------------
(***************************************************************************)
(* State-machine model of the multi-protocol speed test client:            *)
(*   - MultiProtocolSpeedTest   (protocol selection, single / comparison   *)
(*                               runs, per-protocol phase sequencing)      *)
(*   - WebRTCSpeedTestIntegration (ping -> download -> upload sequence     *)
(*                               driven by timers and signaling messages)  *)
(* One action is one browser task: a call from the page, a timer callback, *)
(* a network event, together with the promise continuations it releases.   *)
(***************************************************************************)
EXTENDS Integers, Sequences, FiniteSets, TLC

(***************************************************************************)
(* Bounds of the model.                                                    *)
(***************************************************************************)
MaxInit == 2
\* runWebRTCSpeedTest() calls made on the page.
MaxRuns == 1
\* 'download-complete' messages taken while upload timers are outstanding.
MaxPending == 2
\* Latency samples of one ping test.
MaxSamples == 4
\* Payloads received, or sends attempted, in one download or upload phase.
MaxPackets == 3
\* Download and upload phases started on one WebRTCSpeedTest object.
MaxStarts == 2
\* measureLatency calls made on one WebRTCSpeedTest object.
MaxPings == 3

(***************************************************************************)
(* Program constants of MultiProtocolSpeedTest.                            *)
(***************************************************************************)
Protocols == {"udp", "webrtc", "http"}
PreferredProtocol == "udp"
EnableComparison == TRUE
AutoFallback == TRUE
\* startPingTest: const pingCount = 10
pingCount == 10
\* WebRTCSpeedTest.startDownloadTest(duration = 10000), startUploadTest alike
rtcDuration == 10000
\* WebRTCSpeedTest: 16KB packets
rtcPacketSize == 16384
\* UDPSpeedTest.config.testDuration and packetSize
testDuration == 10000
packetSize == 1024
\* UDPSpeedTest.startDownloadTest: timeout at testDuration + 5000
timeoutExtra == 5000

Range(s) == {s[i] : i \in 1..Len(s)}

VARIABLES
  hasRTC,             \* window.WebRTCSpeedTest && window.RTCPeerConnection
  hasUDPClass,        \* window.UDPSpeedTest
  availableProtocols, \* this.availableProtocols (array)
  currentProtocol,    \* this.currentProtocol
  comparisonMode,     \* this.comparisonMode
  webrtcTest,         \* this.webrtcTest: "null" | "created"
  udpTest,            \* this.udpTest: "null", or by its serverInfo: "noinfo" (null),
                      \* "awaitinfo" (null, a server_info reply may still come), "ready" (set)
  dataChannel,        \* this.webrtcTest.dataChannel: "null" | "open"
  selectors,          \* the #protocol-selector elements of the page, in document order
  initPc,             \* where initialize() is suspended
  initCalls,          \* initialize() calls made
  initDone,           \* initialize() calls that returned
  runPc,              \* where runSpeedTest() is suspended
  runKind,            \* "none" | "single" | "comparison"
  runSel,             \* currentProtocol when the run started
  runAvail,           \* availableProtocols when the run started
  loopIdx,            \* position of the for..of iterator of runComparisonTest
  attempted,          \* protocols handed to runProtocolTest in this run, in order
  outcomes,           \* how each finished attempt ended: "ok" | "failed" | "threw"
  results,            \* the results object of runComparisonTest, in key insertion order
  returned,           \* what runSpeedTest() settled with
  tests,              \* the runUDPTest / runWebRTCTest calls in progress
  lastTest            \* the test that returned last in this run, as it stood at its return

\* webrtc-integration.js: the page-level WebRTC test sequence.
VARIABLES
  loadPc,             \* the DOMContentLoaded handler: "start" | "connecting" | "ready"
                      \* | "failed" | "unsupported"
  isWebRTCMode,       \* the global isWebRTCMode
  signalingSocket,    \* this.signalingSocket: "null" | "connecting" | "open" | "closed"
  connectTimer,       \* the 5 s timer of connectToSignalingServer is outstanding
  speedTest,          \* this.speedTest: "null" | "created"
  peerConnection,     \* this.speedTest.peerConnection was created
  answered,           \* an answer has been given to the peer connection
  channel,            \* this.speedTest.dataChannel: "null" | "connecting" | "open" | "closed"
  isTestRunning,      \* this.speedTest.isTestRunning
  currentTest,        \* this.currentTest: "null" | "download" | "upload"
  pingPc,             \* startPingTest's loop: "idle" | "measure" | "sleep"
  pingI,              \* its counter i
  dlStart,            \* outstanding timers that call startDownloadTest()
  dlStop,             \* outstanding timers that call stopDownloadTest()
  ulStart,            \* outstanding timers that call startUploadTest()
  ulStop,             \* outstanding timers that call stopUploadTest()
  runCalls,           \* runWebRTCSpeedTest() calls made
  Status,             \* the page's global Status
  isConnected,        \* this.isConnected
  ulStarted,          \* startUploadTest() runs that reached the test, up to MaxPending
  runResult           \* what runWebRTCSpeedTest() returned: "none" | "true" | "false"

integVars == <<loadPc, isWebRTCMode, signalingSocket, connectTimer, speedTest,
               peerConnection, answered, channel, isTestRunning, currentTest, pingPc,
               pingI, dlStart, dlStop, ulStart, ulStop, runCalls, Status, isConnected,
               ulStarted, runResult>>

\* The figures a ping test reports (UDPSpeedTest.startPingTest,
\* WebRTCSpeedTestIntegration.startPingTest).
VARIABLES
  pingResults,        \* pingResults / pingSamples: the latencies collected, in ms
  pingReport          \* what the test reported from them

statVars == <<pingResults, pingReport>>

\* One download or upload phase of WebRTCSpeedTest or UDPSpeedTest, with the
\* clock that performance.now() reads.
VARIABLES
  phImpl,             \* "webrtc" | "udp"
  phDir,              \* "download" | "upload"
  now,                \* performance.now(), in ms
  phPc,               \* "idle" | "running" | "ended"
  startTime,          \* startTime / downloadStats.startTime / uploadStats.startTime
  bytes,              \* bytesReceived / bytesSent
  packets,            \* packetsReceived / packetsSent
  arrivals,           \* when each counted payload was received or sent
  link,               \* the data channel (webrtc) or the network path (udp): "open" | "closed"
  closedAt,           \* when the link closed, -1 while it has not
  sending,            \* the upload interval is active
  inflight,           \* fetch() calls of the UDP upload not yet settled
  sendsOk,            \* sends that did not fail
  sendsFailed,        \* sends that failed
  phProgress,         \* the last progress figure handed to on*Progress
  phFinal,            \* how the phase ended
  packetNumbers       \* the X-Packet-Number of each request of the UDP upload

phaseVars == <<phImpl, phDir, now, phPc, startTime, bytes, packets, arrivals, link,
               closedAt, sending, inflight, sendsOk, sendsFailed, phProgress, phFinal,
               packetNumbers>>

\* The ping loop of UDPSpeedTest.startPingTest and of
\* WebRTCSpeedTestIntegration.startPingTest.
VARIABLES
  pgImpl,             \* "udp" | "integ"
  pgReady,            \* serverInfo is set (udp) / speedTest is set (integ)
  pgOpen,             \* the data channel of speedTest is open (integ)
  pgPc,               \* "idle" | "awaiting" | "sleeping" | "done" | "threw"
  pgI,                \* the loop variable i
  pgSent,             \* echo requests sent
  pgSamples           \* pingResults.length / pingSamples.length

pingLoopVars == <<pgImpl, pgReady, pgOpen, pgPc, pgI, pgSent, pgSamples>>

\* One WebRTCSpeedTest object and the calls made on it.
VARIABLES
  rtcDataChannel,     \* this.dataChannel: "null", or its readyState
  rtcIsTestRunning,   \* this.isTestRunning
  downloadStats,      \* this.downloadStats, with the number of the phase it belongs to
  uploadStats,        \* this.uploadStats, likewise
  rtcTimers,          \* pending setTimeout callbacks, in the order they were set
  uploadIntervals,    \* the phases whose upload interval is active
  rtcStarts,          \* phases started so far
  lastCall,           \* the last call and what it reported
  completions         \* the on*Complete notifications, in order

rtcVars == <<rtcDataChannel, rtcIsTestRunning, downloadStats, uploadStats, rtcTimers,
             uploadIntervals, rtcStarts, lastCall, completions>>

\* WebRTCSpeedTest.measureLatency: the echo requests and their replies.
VARIABLES
  latChannel,         \* this.dataChannel: "null", or its readyState
  latRequests,        \* the measureLatency calls made, in order
  pongs,              \* the requests whose reply is on its way
  timerFailed         \* a timer callback has thrown

latVars == <<latChannel, latRequests, pongs, timerFailed>>

\* UDPSpeedTest.startDownloadTest: the event source and the promise.
VARIABLES
  eventSource,        \* "none" | "open" | "closed"
  dlPromise,          \* "none" | "pending" | "complete" | "error" | "timeout"
  dlTimeout,          \* the timeout timer is outstanding
  bytesReceived,      \* bytesReceived
  packetsReceived,    \* packetsReceived
  dlResults,          \* the results the promise resolved with
  dlCompleteCalls     \* onDownloadComplete calls made

udVars == <<eventSource, dlPromise, dlTimeout, bytesReceived, packetsReceived, dlResults,
            dlCompleteCalls>>

measVars == <<statVars, phaseVars, pingLoopVars, rtcVars, latVars, udVars>>

mpVars == <<hasRTC, hasUDPClass, availableProtocols, currentProtocol, comparisonMode,
            webrtcTest, udpTest, dataChannel, selectors, initPc, initCalls, initDone,
            runPc, runKind, runSel, runAvail, loopIdx, attempted, outcomes, results,
            returned, tests, lastTest>>

vars == <<mpVars, integVars, measVars>>

-----------------------------------------------------------------------------
(***************************************************************************)
(* MultiProtocolSpeedTest: selection.                                      *)
(***************************************************************************)

\* Variant of getSelectedProtocol that prefers webrtc to udp.
getSelectedProtocolWebRTCFirst ==
  IF currentProtocol = "auto"
  THEN IF "webrtc" \in Range(availableProtocols) THEN "webrtc"
       ELSE IF "udp" \in Range(availableProtocols) THEN "udp"
       ELSE "http"
  ELSE currentProtocol

getSelectedProtocol ==
  IF currentProtocol = "auto"
  THEN IF "udp" \in Range(availableProtocols) THEN "udp"
       ELSE IF "webrtc" \in Range(availableProtocols) THEN "webrtc"
       ELSE "http"
  ELSE currentProtocol

\* Variant of SetupCurrentProtocol without the availability test.
SetupCurrentProtocolUnchecked(avail) == PreferredProtocol

\* setupProtocolSelector, "Set initial values": the preferred protocol is
\* selected only when it is available.
SetupCurrentProtocol(avail) ==
  IF PreferredProtocol \in Range(avail) THEN PreferredProtocol ELSE currentProtocol

\* The <select> built by setupProtocolSelector from the protocols available then.
SelectorElement(avail) ==
  [options |-> {"auto", "http"} \cup ({"udp", "webrtc"} \cap Range(avail)),
   listening |-> FALSE]

\* The change listeners go to the element document.getElementById finds: the
\* first one in the document.
setupProtocolSelector(avail) ==
  /\ selectors' = [Append(selectors, SelectorElement(avail)) EXCEPT ![1].listening = TRUE]
  /\ currentProtocol' = SetupCurrentProtocol(avail)
  /\ comparisonMode' = EnableComparison

-----------------------------------------------------------------------------
(***************************************************************************)
(* One protocol test (runUDPTest / runWebRTCTest).  A test is a record:    *)
(* ping, download, upload are the states of the three awaited promises     *)
(* ("idle" not created, "pending", "resolved", "rejected"); rping,         *)
(* rdownload, rupload are the fields of its results object ("null", a      *)
(* "value", or "avgnull" for { average: null }); dlStarted / ulStarted say *)
(* whether WebRTCSpeedTest.start*Test armed its stop timer.                *)
(***************************************************************************)

NewTest(p) ==
  [proto |-> p, ping |-> "idle", download |-> "idle", upload |-> "idle",
   rping |-> "null", rdownload |-> "null", rupload |-> "null",
   dlStarted |-> FALSE, ulStarted |-> FALSE, returned |-> FALSE]

Settled(st) == st \in {"resolved", "rejected"}

\* WebRTCSpeedTest: this.dataChannel && this.dataChannel.readyState === 'open'
ChannelOpen == dataChannel = "open"

\* "return results" of runUDPTest / runWebRTCTest
ReturnResults(t) == [t EXCEPT !.returned = TRUE]

\* "Upload test": UDPSpeedTest.startUploadTest throws at once without
\* serverInfo; the WebRTC promise waits for onUploadComplete or its timeout.
StartUpload(t) ==
  IF t.proto = "udp"
  THEN IF udpTest = "ready"
       THEN [t EXCEPT !.upload = "pending"]
       ELSE ReturnResults([t EXCEPT !.upload = "rejected"])
  ELSE [t EXCEPT !.upload = "pending", !.ulStarted = ChannelOpen]

\* "Download test"
StartDownload(t) ==
  IF t.proto = "udp"
  THEN IF udpTest = "ready"
       THEN [t EXCEPT !.download = "pending"]
       ELSE StartUpload([t EXCEPT !.download = "rejected"])
  ELSE [t EXCEPT !.download = "pending", !.dlStarted = ChannelOpen]

\* Variant of StartPing in which the ping promise is not awaited: the download
\* phase is begun while the ping is pending.
StartPingNoAwait(t) ==
  IF t.proto = "udp"
  THEN IF udpTest = "ready"
       THEN StartDownload([t EXCEPT !.ping = "pending"])
       ELSE StartDownload([t EXCEPT !.ping = "rejected"])
  ELSE IF ChannelOpen
       THEN StartDownload([t EXCEPT !.ping = "pending"])
       ELSE StartDownload([t EXCEPT !.ping = "resolved", !.rping = "avgnull"])

\* "Ping test": UDPSpeedTest.startPingTest throws at once without serverInfo;
\* WebRTCSpeedTest.measureLatency resolves null at once without an open channel.
StartPing(t) ==
  IF t.proto = "udp"
  THEN IF udpTest = "ready"
       THEN [t EXCEPT !.ping = "pending"]
       ELSE StartDownload([t EXCEPT !.ping = "rejected"])
  ELSE IF ChannelOpen
       THEN [t EXCEPT !.ping = "pending"]
       ELSE StartDownload([t EXCEPT !.ping = "resolved", !.rping = "avgnull"])

\* Variant of AfterPing in which a failed ping ends the test.
AfterPingAbort(t, ok) ==
  IF t.proto = "udp"
  THEN IF ok THEN StartDownload([t EXCEPT !.ping = "resolved", !.rping = "value"])
             ELSE ReturnResults([t EXCEPT !.ping = "rejected"])
  ELSE IF ok THEN StartDownload([t EXCEPT !.ping = "resolved", !.rping = "value"])
             ELSE ReturnResults([t EXCEPT !.ping = "resolved", !.rping = "avgnull"])

\* The awaited ping promise settles, then the download phase is begun.
AfterPing(t, ok) ==
  IF t.proto = "udp"
  THEN StartDownload(IF ok THEN [t EXCEPT !.ping = "resolved", !.rping = "value"]
                           ELSE [t EXCEPT !.ping = "rejected"])
  ELSE StartDownload([t EXCEPT !.ping = "resolved",
                               !.rping = IF ok THEN "value" ELSE "avgnull"])

\* The awaited download promise settles, then the upload phase is begun.
AfterDownload(t, ok) ==
  StartUpload(IF ok THEN [t EXCEPT !.download = "resolved", !.rdownload = "value"]
                    ELSE [t EXCEPT !.download = "rejected"])

\* The awaited upload promise settles, then the results are returned.
AfterUpload(t, ok) ==
  ReturnResults(IF ok THEN [t EXCEPT !.upload = "resolved", !.rupload = "value"]
                      ELSE [t EXCEPT !.upload = "rejected"])

\* How a pending promise can settle.  UDP ping and download can end either
\* way; the UDP upload promise is only ever resolved (by its duration timer).
\* A WebRTC download / upload promise is resolved by the stop timer when the
\* test was started, and rejected by the later timeout when it was not.
PingCanSettle(t, ok) == t.ping = "pending"

\* Variant of DownloadCanSettle without the timeout of the download promise.
DownloadCanSettleNoTimeout(t, ok) ==
  /\ t.download = "pending"
  /\ ok
  /\ (t.proto = "webrtc" => t.dlStarted)

DownloadCanSettle(t, ok) ==
  /\ t.download = "pending"
  /\ (t.proto = "webrtc" => ok = t.dlStarted)
UploadCanSettle(t, ok) ==
  /\ t.upload = "pending"
  /\ (t.proto = "udp" => ok)
  /\ (t.proto = "webrtc" => ok = t.ulStarted)

\* The object a finished test returns: { ping, download, upload, protocol }.
ResultEntry(t) ==
  [ping |-> t.rping, download |-> t.rdownload, upload |-> t.rupload, protocol |-> t.proto]

\* The placeholder runHTTPTest resolves with.
HTTPEntry ==
  [ping |-> "value", download |-> "value", upload |-> "value", protocol |-> "http"]

\* The entry runComparisonTest records for a test that threw.
ErrorEntry(p) == [error |-> "message", protocol |-> p]

\* A result that carries no measurement at all.
NoMeasurement(e) ==
  /\ "error" \notin DOMAIN e
  /\ e.ping \in {"null", "avgnull"}
  /\ e.download = "null"
  /\ e.upload = "null"

Outcome(e) == IF NoMeasurement(e) THEN "failed" ELSE "ok"

Started(t) ==
  [kind |-> IF t.returned THEN "returned" ELSE "pending", entry |-> ResultEntry(t), test |-> t]

Thrown(p) == [kind |-> "thrown", entry |-> ErrorEntry(p), test |-> NewTest(p)]

runUDPTest ==
  IF udpTest = "null" THEN Thrown("udp") ELSE Started(StartPing(NewTest("udp")))

runWebRTCTest ==
  IF webrtcTest = "null" THEN Thrown("webrtc") ELSE Started(StartPing(NewTest("webrtc")))

runHTTPTest == [kind |-> "returned", entry |-> HTTPEntry, test |-> NewTest("http")]

runProtocolTest(p) ==
  CASE p = "udp" -> runUDPTest
    [] p = "webrtc" -> runWebRTCTest
    [] p = "http" -> runHTTPTest
    [] OTHER -> Thrown(p)

-----------------------------------------------------------------------------
(***************************************************************************)
(* MultiProtocolSpeedTest: runSpeedTest, runSingleProtocolTest,            *)
(* runComparisonTest.  The operators below compute where a run stands when *)
(* the current task ends: [pc, loopIdx, results, attempted, outcomes,      *)
(* returned, tests].                                                       *)
(***************************************************************************)

\* The test that returned last in the run that is going on, if any.
PrevTest == IF runPc \in {"idle", "done"} THEN NewTest("none") ELSE lastTest

NoReturn == [kind |-> "none", entries |-> <<>>]
ReturnValue(es) == [kind |-> "value", entries |-> es]
ReturnThrown == [kind |-> "thrown", entries |-> <<>>]

\* Variant of StoreResult that keeps only results that carry a measurement.
StoreResultIfMeasured(res, p, e) ==
  IF "error" \notin DOMAIN e /\ e.ping \in {"null", "avgnull"}
     /\ e.download = "null" /\ e.upload = "null"
  THEN res
  ELSE IF \E i \in 1..Len(res) : res[i].protocol = p
       THEN [i \in 1..Len(res) |-> IF res[i].protocol = p THEN e ELSE res[i]]
       ELSE Append(res, e)

\* results[protocol] = entry, on an object that keeps its keys in insertion order
StoreResult(res, p, e) ==
  IF \E i \in 1..Len(res) : res[i].protocol = p
  THEN [i \in 1..Len(res) |-> IF res[i].protocol = p THEN e ELSE res[i]]
  ELSE Append(res, e)

\* testResult.protocol = protocol / results.protocol = protocol
WithProtocol(e, p) == [e EXCEPT !.protocol = p]

\* runSingleProtocolTest up to its first suspension: the selected protocol is
\* run; when runProtocolTest throws, the catch falls back to 'http'.
SingleFrom(p) ==
  LET r == runProtocolTest(p) IN
  CASE r.kind = "thrown" ->
         IF AutoFallback /\ p # "http"
         THEN [pc |-> "done", loopIdx |-> 0, results |-> <<>>,
               attempted |-> <<p, "http">>,
               outcomes |-> <<"threw", Outcome(runProtocolTest("http").entry)>>,
               returned |-> ReturnValue(<<runProtocolTest("http").entry>>),
               tests |-> tests, last |-> runProtocolTest("http").test]
         ELSE [pc |-> "done", loopIdx |-> 0, results |-> <<>>,
               attempted |-> <<p>>, outcomes |-> <<"threw">>,
               returned |-> ReturnThrown, tests |-> tests, last |-> PrevTest]
    [] r.kind = "returned" ->
         [pc |-> "done", loopIdx |-> 0, results |-> <<>>,
          attempted |-> <<p>>, outcomes |-> <<Outcome(r.entry)>>,
          returned |-> ReturnValue(<<WithProtocol(r.entry, p)>>), tests |-> tests,
          last |-> r.test]
    [] OTHER ->
         [pc |-> "test", loopIdx |-> 0, results |-> <<>>,
          attempted |-> <<p>>, outcomes |-> <<>>,
          returned |-> NoReturn, tests |-> Append(tests, r.test), last |-> PrevTest]

\* Variant of LoopAwait in which the loop does not wait for the test to return.
LoopNoAwait(idx, res, att, outc, t) ==
  [pc |-> "pause", loopIdx |-> idx, results |-> res, attempted |-> att,
   outcomes |-> outc, returned |-> NoReturn, tests |-> Append(tests, t), last |-> PrevTest]

\* runComparisonTest, "const testResult = await this.runProtocolTest(protocol)"
\* on a test that has not returned yet: the loop is suspended until it does.
LoopAwait(idx, res, att, outc, t) ==
  [pc |-> "test", loopIdx |-> idx, results |-> res, attempted |-> att,
   outcomes |-> outc, returned |-> NoReturn, tests |-> Append(tests, t), last |-> PrevTest]

\* runComparisonTest from position idx of the for..of iterator up to the next
\* suspension.  A test that throws is recorded and the loop goes on at once; a
\* test that returns is recorded and the loop sleeps.
RECURSIVE LoopFrom(_, _, _, _)
LoopFrom(idx, res, att, outc) ==
  IF idx > Len(availableProtocols)
  THEN [pc |-> "done", loopIdx |-> idx, results |-> res, attempted |-> att,
        outcomes |-> outc, returned |-> ReturnValue(res), tests |-> tests, last |-> PrevTest]
  ELSE LET p == availableProtocols[idx]
           r == runProtocolTest(p) IN
       CASE r.kind = "thrown" ->
              LoopFrom(idx + 1, StoreResult(res, p, ErrorEntry(p)),
                       Append(att, p), Append(outc, "threw"))
         [] r.kind = "returned" ->
              [pc |-> "pause", loopIdx |-> idx,
               results |-> StoreResult(res, p, WithProtocol(r.entry, p)),
               attempted |-> Append(att, p), outcomes |-> Append(outc, Outcome(r.entry)),
               returned |-> NoReturn, tests |-> tests, last |-> r.test]
         [] OTHER -> LoopAwait(idx, res, Append(att, p), outc, r.test)

\* The awaiting run goes on when test t returns.
AfterTest(t) ==
  IF runKind = "single"
  THEN [pc |-> "done", loopIdx |-> loopIdx, results |-> results,
        attempted |-> attempted, outcomes |-> Append(outcomes, Outcome(ResultEntry(t))),
        returned |-> ReturnValue(<<WithProtocol(ResultEntry(t), t.proto)>>), last |-> t]
  ELSE [pc |-> "pause", loopIdx |-> loopIdx,
        results |-> StoreResult(results, t.proto, WithProtocol(ResultEntry(t), t.proto)),
        attempted |-> attempted, outcomes |-> Append(outcomes, Outcome(ResultEntry(t))),
        returned |-> NoReturn, last |-> t]

RemoveAt(s, i) == [j \in 1..(Len(s) - 1) |-> IF j < i THEN s[j] ELSE s[j + 1]]

SetRun(st) ==
  /\ runPc' = st.pc
  /\ loopIdx' = st.loopIdx
  /\ results' = st.results
  /\ attempted' = st.attempted
  /\ outcomes' = st.outcomes
  /\ returned' = st.returned
  /\ tests' = st.tests
  /\ lastTest' = st.last

\* A promise awaited by test i settles; test i goes on to its next phase or
\* returns, and then the run that awaits it goes on.
Progress(i, t2) ==
  IF t2.returned
  THEN IF runPc = "test"
       THEN SetRun(AfterTest(t2) @@ [tests |-> RemoveAt(tests, i)])
       ELSE /\ tests' = RemoveAt(tests, i)
            /\ lastTest' = t2
            /\ UNCHANGED <<runPc, loopIdx, results, attempted, outcomes, returned>>
  ELSE /\ tests' = [tests EXCEPT ![i] = t2]
       /\ UNCHANGED <<runPc, loopIdx, results, attempted, outcomes, returned, lastTest>>

-----------------------------------------------------------------------------
(***************************************************************************)
(* Actions of MultiProtocolSpeedTest.                                      *)
(***************************************************************************)

envVars == <<hasRTC, hasUDPClass>>
initVars == <<initPc, initCalls, initDone>>
runVars == <<runPc, runKind, runSel, runAvail, loopIdx, attempted, outcomes, results,
             returned, tests, lastTest>>

\* The locals of a run exist until it has settled: the state with
\* runPc = "done" is the one in which runSpeedTest() hands its result to the
\* caller, and the next task finds no run.
RunRest ==
  IF runPc = "done"
  THEN /\ runPc' = "idle"
       /\ runKind' = "none"
       /\ runSel' = "auto"
       /\ runAvail' = <<>>
       /\ loopIdx' = 0
       /\ attempted' = <<>>
       /\ outcomes' = <<>>
       /\ results' = <<>>
       /\ returned' = NoReturn
       /\ tests' = tests
       /\ lastTest' = NewTest("none")
  ELSE UNCHANGED runVars

MPInit ==
  /\ hasRTC \in BOOLEAN
  /\ hasUDPClass \in BOOLEAN
  /\ availableProtocols = <<>>
  /\ currentProtocol = "auto"
  /\ comparisonMode = FALSE
  /\ webrtcTest = "null"
  /\ udpTest = "null"
  /\ dataChannel = "null"
  /\ selectors = <<>>
  /\ initPc = "idle"
  /\ initCalls = 0
  /\ initDone = 0
  /\ runPc = "idle"
  /\ runKind = "none"
  /\ runSel = "auto"
  /\ runAvail = <<>>
  /\ loopIdx = 0
  /\ attempted = <<>>
  /\ outcomes = <<>>
  /\ results = <<>>
  /\ returned = NoReturn
  /\ tests = <<>>
  /\ lastTest = NewTest("none")

\* Variant of InitializeFinish that does not add 'http'.
InitializeFinishNoHTTP(avail) ==
  /\ availableProtocols' = avail
  /\ setupProtocolSelector(avail)
  /\ initPc' = "idle"
  /\ initDone' = initDone + 1

\* initialize(), from "HTTP testing is always available" to its return.
InitializeFinish(avail) ==
  /\ availableProtocols' = Append(avail, "http")
  /\ setupProtocolSelector(Append(avail, "http"))
  /\ initPc' = "idle"
  /\ initDone' = initDone + 1

\* initialize() up to its first wait on the network: the WebRTC part, whose
\* await is released within the same task, and the creation of the UDP client.
\* webrtcReady is what initializePeerConnection() returns.
InitializeBegin(webrtcReady) ==
  /\ initPc = "idle"
  /\ initCalls < MaxInit
  /\ initCalls' = initCalls + 1
  /\ webrtcTest' = IF hasRTC THEN "created" ELSE webrtcTest
  /\ dataChannel' = IF hasRTC THEN "null" ELSE dataChannel
  /\ LET avail == IF hasRTC /\ webrtcReady
                  THEN Append(availableProtocols, "webrtc")
                  ELSE availableProtocols IN
     IF hasUDPClass
     THEN /\ udpTest' = "noinfo"
          /\ initPc' = "udp"
          /\ availableProtocols' = avail
          /\ UNCHANGED <<currentProtocol, comparisonMode, selectors, initDone>>
     ELSE /\ InitializeFinish(avail)
          /\ UNCHANGED udpTest
  /\ RunRest
  /\ UNCHANGED <<integVars, measVars, envVars>>

\* "const udpReady = await this.udpTest.initialize()" is released.  After a
\* disconnect() the client has no socket left and cannot report success.
\* late: the failure was the server_info timeout, so the reply may still come.
InitializeUDPDone(udpReady, late) ==
  /\ initPc \in {"udp", "udpClosed"}
  /\ udpReady => (initPc = "udp" /\ ~late)
  /\ late => initPc = "udp"
  /\ udpTest' = IF udpReady THEN "ready" ELSE IF late THEN "awaitinfo" ELSE udpTest
  /\ InitializeFinish(IF udpReady THEN Append(availableProtocols, "udp")
                                  ELSE availableProtocols)
  /\ initCalls' = initCalls
  /\ RunRest
  /\ UNCHANGED <<integVars, measVars, envVars, webrtcTest, dataChannel>>

\* UDPSpeedTest.handleControlMessage, case 'server_info', after getServerInfo
\* gave up waiting.
LateServerInfo ==
  /\ udpTest = "awaitinfo"
  /\ udpTest' = "ready"
  /\ UNCHANGED <<integVars, measVars, envVars, availableProtocols, currentProtocol, comparisonMode, webrtcTest,
                 dataChannel, selectors, initVars>>
  /\ RunRest

\* The 'change' listener of the protocol <select>.
ProtocolChange(v) ==
  /\ \E i \in 1..Len(selectors) : selectors[i].listening /\ v \in selectors[i].options
  /\ currentProtocol' = v
  /\ UNCHANGED <<integVars, measVars, envVars, availableProtocols, comparisonMode, webrtcTest, udpTest,
                 dataChannel, selectors, initVars>>
  /\ RunRest

\* The 'change' listener of the comparison checkbox.
ComparisonChange(b) ==
  /\ \E i \in 1..Len(selectors) : selectors[i].listening
  /\ comparisonMode' = b
  /\ UNCHANGED <<integVars, measVars, envVars, availableProtocols, currentProtocol, webrtcTest, udpTest,
                 dataChannel, selectors, initVars>>
  /\ RunRest

\* runSpeedTest(), called when no earlier run is still in progress.
RunSpeedTest ==
  /\ runPc \in {"idle", "done"}
  /\ runKind' = IF comparisonMode THEN "comparison" ELSE "single"
  /\ runSel' = currentProtocol
  /\ runAvail' = availableProtocols
  /\ SetRun(IF comparisonMode THEN LoopFrom(1, <<>>, <<>>, <<>>)
                              ELSE SingleFrom(getSelectedProtocol))
  /\ UNCHANGED <<integVars, measVars, envVars, availableProtocols, currentProtocol, comparisonMode, webrtcTest,
                 udpTest, dataChannel, selectors, initVars>>

\* runComparisonTest: "await this.sleep(1000)" is released.
PauseDone ==
  /\ runPc = "pause"
  /\ SetRun(LoopFrom(loopIdx + 1, results, attempted, outcomes))
  /\ UNCHANGED <<integVars, measVars, envVars, availableProtocols, currentProtocol, comparisonMode, webrtcTest,
                 udpTest, dataChannel, selectors, initVars, runKind, runSel, runAvail>>

PingSettle(i, ok) ==
  /\ i \in 1..Len(tests)
  /\ PingCanSettle(tests[i], ok)
  /\ Progress(i, AfterPing(tests[i], ok))
  /\ UNCHANGED <<integVars, measVars, envVars, availableProtocols, currentProtocol, comparisonMode, webrtcTest,
                 udpTest, dataChannel, selectors, initVars, runKind, runSel, runAvail>>

DownloadSettle(i, ok) ==
  /\ i \in 1..Len(tests)
  /\ DownloadCanSettle(tests[i], ok)
  /\ Progress(i, AfterDownload(tests[i], ok))
  /\ UNCHANGED <<integVars, measVars, envVars, availableProtocols, currentProtocol, comparisonMode, webrtcTest,
                 udpTest, dataChannel, selectors, initVars, runKind, runSel, runAvail>>

UploadSettle(i, ok) ==
  /\ i \in 1..Len(tests)
  /\ UploadCanSettle(tests[i], ok)
  /\ Progress(i, AfterUpload(tests[i], ok))
  /\ UNCHANGED <<integVars, measVars, envVars, availableProtocols, currentProtocol, comparisonMode, webrtcTest,
                 udpTest, dataChannel, selectors, initVars, runKind, runSel, runAvail>>

\* disconnect(): webrtcTest.close(), udpTest.disconnect() (ws closed,
\* serverInfo = null), and the first #protocol-selector element is removed.
Disconnect ==
  /\ dataChannel' = IF webrtcTest # "null" THEN "null" ELSE dataChannel
  /\ udpTest' = IF udpTest # "null" THEN "noinfo" ELSE udpTest
  /\ initPc' = IF initPc = "udp" THEN "udpClosed" ELSE initPc
  /\ selectors' = IF selectors # <<>> THEN Tail(selectors) ELSE selectors
  /\ UNCHANGED <<integVars, measVars, envVars, availableProtocols, currentProtocol, comparisonMode, webrtcTest,
                 initCalls, initDone>>
  /\ RunRest

MPNext ==
  \/ \E webrtcReady \in BOOLEAN : InitializeBegin(webrtcReady)
  \/ \E udpReady \in BOOLEAN, late \in BOOLEAN : InitializeUDPDone(udpReady, late)
  \/ LateServerInfo
  \/ \E v \in Protocols \cup {"auto"} : ProtocolChange(v)
  \/ \E b \in BOOLEAN : ComparisonChange(b)
  \/ RunSpeedTest
  \/ PauseDone
  \/ \E i \in 1..Len(tests), ok \in BOOLEAN : PingSettle(i, ok)
  \/ \E i \in 1..Len(tests), ok \in BOOLEAN : DownloadSettle(i, ok)
  \/ \E i \in 1..Len(tests), ok \in BOOLEAN : UploadSettle(i, ok)
  \/ Disconnect

-----------------------------------------------------------------------------
(***************************************************************************)
(* WebRTCSpeedTestIntegration (webrtc-integration.js) with the             *)
(* WebRTCSpeedTest object it drives.  The signaling server is the          *)
(* environment: once the socket is open it may send any message at any     *)
(* time.                                                                   *)
(***************************************************************************)

SignalingMessages ==
  {"welcome", "answer", "ice-candidate", "download-complete", "upload-complete", "pong"}

netVars == <<signalingSocket, connectTimer>>
peerVars == <<speedTest, peerConnection, answered, channel>>
pingVars == <<pingPc, pingI>>
timerVars == <<dlStart, dlStop, ulStart, ulStop>>
uiVars == <<Status, isConnected, ulStarted, runResult>>

IntegInit ==
  /\ loadPc = "start"
  /\ isWebRTCMode = FALSE
  /\ signalingSocket = "null"
  /\ connectTimer = FALSE
  /\ speedTest = "null"
  /\ peerConnection = FALSE
  /\ answered = FALSE
  /\ channel = "null"
  /\ isTestRunning = FALSE
  /\ currentTest = "null"
  /\ pingPc = "idle"
  /\ pingI = 0
  /\ dlStart = 0
  /\ dlStop = 0
  /\ ulStart = 0
  /\ ulStop = 0
  /\ runCalls = 0
  /\ Status = "Idle"
  /\ isConnected = FALSE
  /\ ulStarted = 0
  /\ runResult = "none"

\* WebRTCSpeedTest.measureLatency resolves null at once unless the channel is
\* open; then it waits for the pong or its 5 s timer.
MeasureLatencyPc == IF channel = "open" THEN "measure" ELSE "sleep"

\* The DOMContentLoaded listener up to the wait for the socket.
IntegrationLoaded ==
  /\ loadPc = "start"
  /\ IF hasRTC
     THEN /\ loadPc' = "connecting"
          /\ signalingSocket' = "connecting"
          /\ connectTimer' = TRUE
     ELSE /\ loadPc' = "unsupported"
          /\ UNCHANGED netVars
  /\ UNCHANGED <<mpVars, measVars, uiVars, isWebRTCMode, peerVars, isTestRunning, currentTest, pingVars,
                 timerVars, runCalls>>

\* signalingSocket.onopen, and the rest of initialize() and of the listener
\* that it releases.  peerOk is what initializePeerConnection() achieved.
SocketOpen(peerOk) ==
  /\ signalingSocket = "connecting"
  /\ signalingSocket' = "open"
  /\ isConnected' = TRUE
  /\ IF loadPc = "connecting"
     THEN /\ speedTest' = "created"
          /\ peerConnection' = peerOk
          /\ loadPc' = "ready"
          /\ isWebRTCMode' = TRUE
     ELSE UNCHANGED <<speedTest, peerConnection, loadPc, isWebRTCMode>>
  /\ UNCHANGED <<mpVars, measVars, Status, ulStarted, runResult, connectTimer, answered, channel, isTestRunning, currentTest,
                 pingVars, timerVars, runCalls>>

\* signalingSocket.onerror while connecting: initialize() returns false.
SocketError ==
  /\ signalingSocket = "connecting"
  /\ signalingSocket' = "closed"
  /\ loadPc' = IF loadPc = "connecting" THEN "failed" ELSE loadPc
  /\ UNCHANGED <<mpVars, measVars, uiVars, connectTimer, isWebRTCMode, peerVars, isTestRunning, currentTest,
                 pingVars, timerVars, runCalls>>

\* signalingSocket.onclose.
SocketClose ==
  /\ signalingSocket = "open"
  /\ signalingSocket' = "closed"
  /\ isConnected' = FALSE
  /\ UNCHANGED <<mpVars, measVars, Status, ulStarted, runResult, loadPc, connectTimer, isWebRTCMode, peerVars, isTestRunning,
                 currentTest, pingVars, timerVars, runCalls>>

\* The 5 s timer of connectToSignalingServer.
ConnectTimeout ==
  /\ connectTimer
  /\ connectTimer' = FALSE
  /\ loadPc' = IF ~isConnected /\ loadPc = "connecting" THEN "failed" ELSE loadPc
  /\ UNCHANGED <<mpVars, measVars, uiVars, signalingSocket, isWebRTCMode, peerVars, isTestRunning,
                 currentTest, pingVars, timerVars, runCalls>>

\* handleDownloadComplete: currentTest = null and a 1 s timer for
\* startUploadTest().
handleDownloadComplete ==
  /\ currentTest' = "null"
  /\ ulStart' = ulStart + 1

\* signalingSocket.onmessage -> handleSignalingMessage.
handleSignalingMessage(type) ==
  /\ signalingSocket = "open"
  /\ type = "download-complete" => ulStart + ulStop < MaxPending
  /\ Status' = IF type = "upload-complete" THEN "Done" ELSE Status
  /\ CASE type = "welcome" ->
            /\ channel' = IF speedTest = "created" /\ peerConnection
                          THEN "connecting" ELSE channel
            /\ answered' = IF speedTest = "created" /\ peerConnection
                           THEN FALSE ELSE answered
            /\ UNCHANGED <<currentTest, ulStart>>
       [] type = "answer" ->
            /\ answered' = IF speedTest = "created" /\ peerConnection
                           THEN TRUE ELSE answered
            /\ UNCHANGED <<channel, currentTest, ulStart>>
       [] type = "download-complete" ->
            /\ handleDownloadComplete
            /\ UNCHANGED <<channel, answered>>
       [] type = "upload-complete" ->
            /\ currentTest' = "null"
            /\ UNCHANGED <<channel, answered, ulStart>>
       [] OTHER -> UNCHANGED <<channel, answered, currentTest, ulStart>>
  /\ UNCHANGED <<mpVars, measVars, isConnected, ulStarted, runResult, loadPc, netVars, isWebRTCMode, speedTest, peerConnection,
                 isTestRunning, pingVars, dlStart, dlStop, ulStop, runCalls>>

\* The data channel's open event.
ChannelOpens ==
  /\ channel = "connecting"
  /\ answered
  /\ channel' = "open"
  /\ UNCHANGED <<mpVars, measVars, uiVars, loadPc, netVars, isWebRTCMode, speedTest, peerConnection,
                 answered, isTestRunning, currentTest, pingVars, timerVars, runCalls>>

\* The data channel's close event.
ChannelCloses ==
  /\ channel = "open"
  /\ channel' = "closed"
  /\ UNCHANGED <<mpVars, measVars, uiVars, loadPc, netVars, isWebRTCMode, speedTest, peerConnection,
                 answered, isTestRunning, currentTest, pingVars, timerVars, runCalls>>

\* runWebRTCSpeedTest(), with startPingTest() up to its first wait.
runWebRTCSpeedTest ==
  /\ runCalls < MaxRuns
  /\ pingPc = "idle"
  /\ runCalls' = runCalls + 1
  /\ IF ~isWebRTCMode
     THEN /\ runResult' = "false"
          /\ UNCHANGED <<pingVars, dlStart, Status>>
     ELSE /\ runResult' = "true"
          /\ IF speedTest = "null"
             THEN /\ dlStart' = dlStart + 1
                  /\ UNCHANGED <<pingVars, Status>>
             ELSE /\ pingI' = 0
                  /\ pingPc' = MeasureLatencyPc
                  /\ Status' = "Testing Latency"
                  /\ UNCHANGED dlStart
  /\ UNCHANGED <<mpVars, measVars, isConnected, ulStarted, loadPc, netVars, isWebRTCMode, peerVars, isTestRunning,
                 currentTest, dlStop, ulStart, ulStop>>

\* measureLatency settles: the pong came, or its 5 s timer fired.
PingMeasured ==
  /\ pingPc = "measure"
  /\ channel # "null"
  /\ pingPc' = "sleep"
  /\ UNCHANGED <<mpVars, measVars, uiVars, loadPc, netVars, isWebRTCMode, peerVars, isTestRunning,
                 currentTest, pingI, timerVars, runCalls>>

\* The 100 ms wait between pings is over: the next iteration, or the end of
\* startPingTest and the 1 s timer for startDownloadTest().
PingNext ==
  /\ pingPc = "sleep"
  /\ IF pingI + 1 < pingCount /\ speedTest # "null"
     THEN /\ pingI' = pingI + 1
          /\ pingPc' = MeasureLatencyPc
          /\ UNCHANGED dlStart
     ELSE /\ pingI' = 0
          /\ pingPc' = "idle"
          /\ dlStart' = dlStart + 1
  /\ UNCHANGED <<mpVars, measVars, uiVars, loadPc, netVars, isWebRTCMode, peerVars, isTestRunning,
                 currentTest, dlStop, ulStart, ulStop, runCalls>>

\* The timer set by runWebRTCSpeedTest fires: startDownloadTest() and
\* WebRTCSpeedTest.startDownloadTest.
IntegStartDownloadTest ==
  /\ dlStart > 0
  /\ dlStart' = dlStart - 1
  /\ IF speedTest = "null"
     THEN UNCHANGED <<currentTest, isTestRunning, dlStop, Status>>
     ELSE /\ currentTest' = "download"
          /\ Status' = "initDown"
          /\ IF channel = "open"
             THEN isTestRunning' = TRUE /\ dlStop' = dlStop + 1
             ELSE UNCHANGED <<isTestRunning, dlStop>>
  /\ UNCHANGED <<mpVars, measVars, isConnected, ulStarted, runResult, loadPc, netVars, isWebRTCMode, peerVars, pingVars, ulStart,
                 ulStop, runCalls>>

\* The timer set by WebRTCSpeedTest.startDownloadTest fires:
\* stopDownloadTest and, through onDownloadComplete, handleDownloadComplete.
stopDownloadTest ==
  /\ dlStop > 0
  /\ dlStop' = dlStop - 1
  /\ isTestRunning' = FALSE
  /\ handleDownloadComplete
  /\ UNCHANGED <<mpVars, measVars, uiVars, loadPc, netVars, isWebRTCMode, peerVars, pingVars, dlStart,
                 ulStop, runCalls>>

\* The timer set by handleDownloadComplete fires: startUploadTest() and
\* WebRTCSpeedTest.startUploadTest.
IntegStartUploadTest ==
  /\ ulStart > 0
  /\ ulStart' = ulStart - 1
  /\ IF speedTest = "null"
     THEN UNCHANGED <<currentTest, isTestRunning, ulStop, Status, ulStarted>>
     ELSE /\ currentTest' = "upload"
          /\ Status' = "initup"
          /\ ulStarted' = IF ulStarted < MaxPending THEN ulStarted + 1 ELSE ulStarted
          /\ IF channel = "open"
             THEN isTestRunning' = TRUE /\ ulStop' = ulStop + 1
             ELSE UNCHANGED <<isTestRunning, ulStop>>
  /\ UNCHANGED <<mpVars, measVars, isConnected, runResult, loadPc, netVars, isWebRTCMode, peerVars, pingVars, dlStart,
                 dlStop, runCalls>>

\* The timer set by WebRTCSpeedTest.startUploadTest fires: stopUploadTest
\* and, through onUploadComplete, handleUploadComplete.
stopUploadTest ==
  /\ ulStop > 0
  /\ ulStop' = ulStop - 1
  /\ isTestRunning' = FALSE
  /\ currentTest' = "null"
  /\ Status' = "Done"
  /\ UNCHANGED <<mpVars, measVars, isConnected, ulStarted, runResult, loadPc, netVars, isWebRTCMode, peerVars, pingVars, dlStart,
                 dlStop, ulStart, runCalls>>

\* WebRTCSpeedTestIntegration.disconnect().
IntegDisconnect ==
  /\ loadPc \in {"connecting", "ready", "failed"}
  /\ speedTest' = "null"
  /\ peerConnection' = FALSE
  /\ answered' = FALSE
  /\ channel' = "null"
  /\ isTestRunning' = IF speedTest = "created" THEN FALSE ELSE isTestRunning
  /\ signalingSocket' = "null"
  /\ isConnected' = FALSE
  /\ currentTest' = "null"
  /\ UNCHANGED <<mpVars, measVars, Status, ulStarted, runResult, loadPc, connectTimer, isWebRTCMode, pingVars, timerVars, runCalls>>

IntegNext ==
  \/ IntegrationLoaded
  \/ \E peerOk \in BOOLEAN : SocketOpen(peerOk)
  \/ SocketError
  \/ SocketClose
  \/ ConnectTimeout
  \/ \E type \in SignalingMessages : handleSignalingMessage(type)
  \/ ChannelOpens
  \/ ChannelCloses
  \/ runWebRTCSpeedTest
  \/ PingMeasured
  \/ PingNext
  \/ IntegStartDownloadTest
  \/ stopDownloadTest
  \/ IntegStartUploadTest
  \/ stopUploadTest
  \/ IntegDisconnect

-----------------------------------------------------------------------------
(***************************************************************************)
(* Numbers.  A JavaScript number is kept as a fraction [num, den] in       *)
(* lowest terms: den > 0 for a finite number, and 1/0, -1/0, 0/0 for       *)
(* Infinity, -Infinity and NaN.  Rounding to a double is left out.         *)
(***************************************************************************)

Abs(x) == IF x < 0 THEN -x ELSE x

RECURSIVE GCD(_, _)
GCD(a, b) == IF b = 0 THEN a ELSE GCD(b, a % b)

Frac(n, d) ==
  LET g == GCD(Abs(n), Abs(d))
      sg == IF d < 0 THEN -1 ELSE 1 IN
  [num |-> sg * (n \div g), den |-> sg * (d \div g)]

Num(n) == [num |-> n, den |-> 1]

Infinity == [num |-> 1, den |-> 0]
NaN == [num |-> 0, den |-> 0]

\* The value undefined.
Undefined == [undefined |-> TRUE]

IsFinite(a) == a.den # 0

\* a / b, for the divisors that occur: finite and not negative
JSDiv(a, b) ==
  IF ~IsFinite(a) THEN a
  ELSE IF b.num = 0 THEN
    IF a.num = 0 THEN NaN ELSE IF a.num > 0 THEN Infinity ELSE [num |-> -1, den |-> 0]
  ELSE LET g1 == GCD(Abs(a.num), Abs(b.num))
           g2 == GCD(a.den, b.den) IN
       Frac((a.num \div g1) * (b.den \div g2), (a.den \div g2) * (b.num \div g1))

-----------------------------------------------------------------------------
(***************************************************************************)
(* Ping statistics: calculateJitter and the end of the two startPingTest   *)
(* implementations.                                                        *)
(***************************************************************************)

\* Latencies a ping can measure, in ms.
Latencies == {19, 20, 22, 30}

SampleSeqs == UNION {[1..n -> Latencies] : n \in 0..MaxSamples}

\* for (let i = 1; i < samples.length; i++) jitterSum += Math.abs(...)
RECURSIVE jitterLoop(_, _, _)
jitterLoop(samples, i, jitterSum) ==
  IF i > Len(samples) THEN jitterSum
  ELSE jitterLoop(samples, i + 1, jitterSum + Abs(samples[i] - samples[i - 1]))

\* Variant of calculateJitter that divides by the number of samples.
calculateJitterPerSample(samples) ==
  IF Len(samples) < 2 THEN Num(0)
  ELSE JSDiv(Num(jitterLoop(samples, 2, 0)), Num(Len(samples)))

\* calculateJitter (the same code in UDPSpeedTest and in
\* WebRTCSpeedTestIntegration)
calculateJitter(samples) ==
  IF Len(samples) < 2 THEN Num(0)
  ELSE JSDiv(Num(jitterLoop(samples, 2, 0)), Num(Len(samples) - 1))

\* pingResults.reduce((a, b) => a + b, 0)
RECURSIVE reduceSum(_, _)
reduceSum(samples, acc) ==
  IF samples = <<>> THEN acc ELSE reduceSum(Tail(samples), acc + Head(samples))

avgPing(samples) == JSDiv(Num(reduceSum(samples, 0)), Num(Len(samples)))

NoReport == [by |-> "none"]

StatInit ==
  /\ pingResults \in SampleSeqs
  /\ pingReport = NoReport

\* UDPSpeedTest.startPingTest after its loop: the results object, or the
\* error 'No successful ping responses received'.
UDPPingReport ==
  /\ pingReport = NoReport
  /\ pingReport' = IF Len(pingResults) > 0
                   THEN [by |-> "udp", average |-> avgPing(pingResults),
                         jitter |-> calculateJitter(pingResults), samples |-> pingResults]
                   ELSE [by |-> "udp", error |-> "No successful ping responses received"]
  /\ UNCHANGED <<mpVars, integVars, latVars, udVars, phaseVars, pingLoopVars, rtcVars, pingResults>>

\* WebRTCSpeedTestIntegration.startPingTest after its loop: the figures shown
\* as "Final", if any.
IntegPingReport ==
  /\ pingReport = NoReport
  /\ pingReport' = IF Len(pingResults) > 0
                   THEN [by |-> "webrtc", average |-> avgPing(pingResults),
                         jitter |-> calculateJitter(pingResults)]
                   ELSE [by |-> "webrtc"]
  /\ UNCHANGED <<mpVars, integVars, latVars, udVars, phaseVars, pingLoopVars, rtcVars, pingResults>>

StatNext ==
  \/ UDPPingReport
  \/ IntegPingReport

\* No ping test has reported.
StatIdle ==
  /\ pingResults = <<>>
  /\ pingReport = NoReport

-----------------------------------------------------------------------------
(***************************************************************************)
(* One download or upload phase: WebRTCSpeedTest.startDownloadTest /       *)
(* startUploadTest with their stop timers, and UDPSpeedTest.               *)
(* startDownloadTest / startUploadTest.  The server, the network and the   *)
(* clock are the environment.                                              *)
(***************************************************************************)

\* Moments at which something can happen, in ms.
TimePoints == {0, 100, 4000, 9500, 10000, 15000}

\* (bytes * 8) / (duration / 1000) / 1000000, without the factor 8
speedMbpsOfBytes(b, duration) ==
  JSDiv(JSDiv(Num(b), JSDiv(Num(duration), Num(1000))), Num(1000000))

\* (bytes * 8) / (duration / 1000) / 1000000
speedMbps(b, duration) ==
  JSDiv(JSDiv(Num(b * 8), JSDiv(Num(duration), Num(1000))), Num(1000000))

NoFigure == [by |-> "none"]

\* The figure handed to onDownloadProgress / onUploadProgress.
ProgressFigure(b) ==
  [by |-> "progress", elapsed |-> now - startTime, bytes |-> b,
   speedMbps |-> speedMbps(b, now - startTime)]

\* The results computed when a phase ends normally.
FinalFigure(how) ==
  [by |-> how, at |-> now, duration |-> now - startTime, bytes |-> bytes,
   packets |-> packets, speedMbps |-> speedMbps(bytes, now - startTime)]

\* The rejection a phase ends with.
FinalError(how, msg) == [by |-> how, at |-> now, error |-> msg]

\* When the phase's timer fires: the stop timer, or for the UDP download the
\* timeout that rejects.
Deadline ==
  IF phImpl = "webrtc" THEN startTime + rtcDuration
  ELSE IF phDir = "download" THEN startTime + testDuration + timeoutExtra
  ELSE startTime + testDuration

PayloadSize == IF phImpl = "webrtc" THEN rtcPacketSize ELSE packetSize

\* Variant of recordSend that counts a send whether or not it failed.
recordEverySend(cnt, ok) ==
  [bytes |-> cnt.bytes + PayloadSize, packets |-> cnt.packets + 1]

\* "send(...); bytesSent += testData.byteLength; packetsSent++" inside try:
\* a send that throws or rejects skips the two updates.
recordSend(cnt, ok) ==
  IF ok THEN [bytes |-> cnt.bytes + PayloadSize, packets |-> cnt.packets + 1]
  ELSE cnt

PhaseIdle ==
  /\ now = 0
  /\ phPc = "idle"
  /\ startTime = 0
  /\ bytes = 0
  /\ packets = 0
  /\ arrivals = <<>>
  /\ link = "open"
  /\ closedAt = -1
  /\ sending = FALSE
  /\ inflight = 0
  /\ sendsOk = 0
  /\ sendsFailed = 0
  /\ phProgress = NoFigure
  /\ phFinal = NoFigure
  /\ packetNumbers = <<>>

PhaseInit ==
  /\ phImpl \in {"webrtc", "udp"}
  /\ phDir \in {"download", "upload"}
  /\ PhaseIdle

counterVars == <<bytes, packets, arrivals, sendsOk, sendsFailed>>

\* Time passes; a timer fires when its time has come.
Tick(t) ==
  /\ t > now
  /\ phPc = "running" => t <= Deadline
  /\ now' = t
  /\ UNCHANGED <<mpVars, integVars, latVars, udVars, statVars, pingLoopVars, rtcVars, phImpl, phDir, packetNumbers, phPc, startTime, counterVars,
                 link, closedAt, sending, inflight, phProgress, phFinal>>

\* startDownloadTest / startUploadTest.  The WebRTC ones return false unless
\* the channel is open.
PhaseStart ==
  /\ phPc = "idle"
  /\ IF phImpl = "webrtc" /\ link # "open"
     THEN UNCHANGED <<phPc, startTime, sending>>
     ELSE /\ phPc' = "running"
          /\ startTime' = now
          /\ sending' = (phDir = "upload")
  /\ UNCHANGED <<mpVars, integVars, latVars, udVars, statVars, pingLoopVars, rtcVars, phImpl, phDir, packetNumbers, now, counterVars, link,
                 closedAt, inflight, phProgress, phFinal>>

\* A payload arrives: WebRTCSpeedTest.handleIncomingData, or the 'data' case
\* of the EventSource handler of UDPSpeedTest.startDownloadTest.
DataArrives ==
  /\ phDir = "download"
  /\ phPc = "running"
  /\ link = "open"
  /\ packets < MaxPackets
  /\ bytes' = bytes + PayloadSize
  /\ packets' = packets + 1
  /\ arrivals' = Append(arrivals, now)
  /\ phProgress' = ProgressFigure(bytes + PayloadSize)
  /\ UNCHANGED <<mpVars, integVars, latVars, udVars, statVars, pingLoopVars, rtcVars, phImpl, phDir, packetNumbers, now, phPc, startTime, link,
                 closedAt, sending, inflight, sendsOk, sendsFailed, phFinal>>

\* UDPSpeedTest.startDownloadTest: the 'complete' event resolves the promise.
DownloadComplete ==
  /\ phImpl = "udp"
  /\ phDir = "download"
  /\ phPc = "running"
  /\ link = "open"
  /\ phPc' = "ended"
  /\ phFinal' = FinalFigure("complete")
  /\ UNCHANGED <<mpVars, integVars, latVars, udVars, statVars, pingLoopVars, rtcVars, phImpl, phDir, packetNumbers, now, startTime, counterVars,
                 link, closedAt, sending, inflight, phProgress>>

\* UDPSpeedTest.startDownloadTest: eventSource.onerror rejects the promise.
DownloadError ==
  /\ phImpl = "udp"
  /\ phDir = "download"
  /\ phPc = "running"
  /\ phPc' = "ended"
  /\ phFinal' = FinalError("error", "error event")
  /\ UNCHANGED <<mpVars, integVars, latVars, udVars, statVars, pingLoopVars, rtcVars, phImpl, phDir, packetNumbers, now, startTime, counterVars,
                 link, closedAt, sending, inflight, phProgress>>

\* The phase's timer fires: stopDownloadTest / stopUploadTest, the resolving
\* timer of the UDP upload, or the rejecting timeout of the UDP download.
DeadlineFires ==
  /\ phPc = "running"
  /\ now = Deadline
  /\ phPc' = "ended"
  /\ sending' = FALSE
  /\ phFinal' = IF phImpl = "udp" /\ phDir = "download"
                THEN FinalError("timeout", "Download test timeout")
                ELSE FinalFigure("stop")
  /\ UNCHANGED <<mpVars, integVars, latVars, udVars, statVars, pingLoopVars, rtcVars, phImpl, phDir, packetNumbers, now, startTime, counterVars,
                 link, closedAt, inflight, phProgress>>

\* WebRTCSpeedTest.startUploadTest: one turn of the upload interval.
\* dataChannel.send throws unless the channel is open; the catch clears the
\* interval.
RTCSend ==
  /\ phImpl = "webrtc"
  /\ phPc = "running"
  /\ sending
  /\ sendsOk + sendsFailed < MaxPackets
  /\ LET ok == link = "open"
         cnt == recordSend([bytes |-> bytes, packets |-> packets], ok) IN
     /\ bytes' = cnt.bytes
     /\ packets' = cnt.packets
     /\ sendsOk' = IF ok THEN sendsOk + 1 ELSE sendsOk
     /\ sendsFailed' = IF ok THEN sendsFailed ELSE sendsFailed + 1
     /\ arrivals' = IF ok THEN Append(arrivals, now) ELSE arrivals
     /\ sending' = ok
     /\ phProgress' = IF ok THEN ProgressFigure(cnt.bytes) ELSE phProgress
  /\ UNCHANGED <<mpVars, integVars, latVars, udVars, statVars, pingLoopVars, rtcVars, phImpl, phDir, packetNumbers, now, phPc, startTime, link,
                 closedAt, inflight, phFinal>>

\* UDPSpeedTest.startUploadTest: one turn of the upload interval starts a
\* fetch, with packetsSent as it stands in the X-Packet-Number header, and
\* waits for it.
UDPSendBegin ==
  /\ phImpl = "udp"
  /\ phPc = "running"
  /\ sending
  /\ sendsOk + sendsFailed + inflight < MaxPackets
  /\ inflight' = inflight + 1
  /\ packetNumbers' = Append(packetNumbers, packets)
  /\ UNCHANGED <<mpVars, integVars, latVars, udVars, statVars, pingLoopVars, rtcVars, phImpl, phDir, now, phPc, startTime,
                 counterVars, link, closedAt, sending, phProgress, phFinal>>

\* The awaited fetch settles; it cannot succeed without the network.
UDPSendSettles(ok) ==
  /\ inflight > 0
  /\ ok => link = "open"
  /\ inflight' = inflight - 1
  /\ LET cnt == recordSend([bytes |-> bytes, packets |-> packets], ok) IN
     /\ bytes' = cnt.bytes
     /\ packets' = cnt.packets
     /\ phProgress' = IF ok THEN ProgressFigure(cnt.bytes) ELSE phProgress
  /\ sendsOk' = IF ok THEN sendsOk + 1 ELSE sendsOk
  /\ sendsFailed' = IF ok THEN sendsFailed ELSE sendsFailed + 1
  /\ arrivals' = IF ok THEN Append(arrivals, now) ELSE arrivals
  /\ UNCHANGED <<mpVars, integVars, latVars, udVars, statVars, pingLoopVars, rtcVars, phImpl, phDir, packetNumbers, now, phPc, startTime, link,
                 closedAt, sending, phFinal>>

\* The data channel closes (channel.onclose only logs), or the network path
\* to the UDP server is lost.
LinkCloses ==
  /\ link = "open"
  /\ link' = "closed"
  /\ closedAt' = now
  /\ UNCHANGED <<mpVars, integVars, latVars, udVars, statVars, pingLoopVars, rtcVars, phImpl, phDir, packetNumbers, now, phPc, startTime,
                 counterVars, sending, inflight, phProgress, phFinal>>

PhaseNext ==
  \/ \E t \in TimePoints \cup {Deadline} : Tick(t)
  \/ PhaseStart
  \/ DataArrives
  \/ DownloadComplete
  \/ DownloadError
  \/ DeadlineFires
  \/ RTCSend
  \/ UDPSendBegin
  \/ \E ok \in BOOLEAN : UDPSendSettles(ok)
  \/ LinkCloses

-----------------------------------------------------------------------------
(***************************************************************************)
(* The ping loop: UDPSpeedTest.startPingTest with sendUDPPing, and         *)
(* WebRTCSpeedTestIntegration.startPingTest with                           *)
(* WebRTCSpeedTest.measureLatency.  The replies are the environment.       *)
(***************************************************************************)

\* The end of the loop: with samples the results are reported; without, the
\* UDP test throws 'No successful ping responses received' and the
\* integration just returns.
PingFinish(samples) ==
  IF samples = 0 /\ pgImpl = "udp" THEN "threw" ELSE "done"

\* The top of "for (let i = 0; i < pingCount; i++)" up to the first await.
\* sendUDPPing always calls fetch; measureLatency resolves null without
\* sending unless the data channel is open.
PingLoopTop(i, sent, samples) ==
  IF i >= pingCount
  THEN [pc |-> PingFinish(samples), i |-> i, sent |-> sent]
  ELSE IF pgImpl = "udp" \/ pgOpen
       THEN [pc |-> "awaiting", i |-> i, sent |-> sent + 1]
       ELSE [pc |-> "sleeping", i |-> i, sent |-> sent]

\* Variant of PingLatency that sends the request again when no reply came.
PingLatencyRetry(latency) ==
  IF latency THEN [pc |-> "sleeping", sent |-> pgSent, samples |-> pgSamples + 1]
  ELSE [pc |-> "awaiting", sent |-> pgSent + 1, samples |-> pgSamples]

\* "const latency = await ...; if (latency !== null) pingResults.push(latency)"
\* and then the wait of 100 ms.
PingLatency(latency) ==
  IF latency THEN [pc |-> "sleeping", sent |-> pgSent, samples |-> pgSamples + 1]
  ELSE [pc |-> "sleeping", sent |-> pgSent, samples |-> pgSamples]

PingIdle ==
  /\ pgPc = "idle"
  /\ pgI = 0
  /\ pgSent = 0
  /\ pgSamples = 0

PingInit ==
  /\ pgImpl \in {"udp", "integ"}
  /\ pgReady \in BOOLEAN
  /\ pgOpen \in BOOLEAN
  /\ PingIdle

\* startPingTest() up to its first await.
PingStart ==
  /\ pgPc = "idle"
  /\ IF ~pgReady
     THEN /\ pgPc' = IF pgImpl = "udp" THEN "threw" ELSE "done"
          /\ UNCHANGED <<pgI, pgSent>>
     ELSE LET st == PingLoopTop(0, pgSent, pgSamples) IN
          /\ pgPc' = st.pc
          /\ pgI' = st.i
          /\ pgSent' = st.sent
  /\ UNCHANGED <<mpVars, integVars, latVars, udVars, statVars, phaseVars, rtcVars, pgImpl, pgReady, pgOpen, pgSamples>>

\* The awaited latency arrives: a pong (latency TRUE) or null after the
\* 5 s timeout, a failed fetch or a reply that is no pong.
PingReply(latency) ==
  /\ pgPc = "awaiting"
  /\ LET st == PingLatency(latency) IN
     /\ pgPc' = st.pc
     /\ pgSent' = st.sent
     /\ pgSamples' = st.samples
  /\ UNCHANGED <<mpVars, integVars, latVars, udVars, statVars, phaseVars, rtcVars, pgImpl, pgReady, pgOpen, pgI>>

\* The 100 ms wait is over: i++ and the next turn of the loop, or its end.
PingSleepDone ==
  /\ pgPc = "sleeping"
  /\ LET st == PingLoopTop(pgI + 1, pgSent, pgSamples) IN
     /\ pgPc' = st.pc
     /\ pgI' = st.i
     /\ pgSent' = st.sent
  /\ UNCHANGED <<mpVars, integVars, latVars, udVars, statVars, phaseVars, rtcVars, pgImpl, pgReady, pgOpen, pgSamples>>

\* The data channel of the integration's speedTest opens or closes.
PingChannelChange ==
  /\ pgImpl = "integ"
  /\ pgOpen' = ~pgOpen
  /\ UNCHANGED <<mpVars, integVars, latVars, udVars, statVars, phaseVars, rtcVars, pgImpl, pgReady, pgPc, pgI, pgSent,
                 pgSamples>>

PingNextStep ==
  \/ PingStart
  \/ \E latency \in BOOLEAN : PingReply(latency)
  \/ PingSleepDone
  \/ PingChannelChange

\* No ping loop is in use.
PingLoopIdle ==
  /\ pgImpl = "udp"
  /\ pgReady = TRUE
  /\ pgOpen = TRUE
  /\ PingIdle

-----------------------------------------------------------------------------
(***************************************************************************)
(* One WebRTCSpeedTest object: its data channel, the calls                 *)
(* startDownloadTest, startUploadTest, measureLatency and close, the       *)
(* timers and the interval they set, and handleIncomingData.               *)
(***************************************************************************)

\* Variant of ChannelReady that only tests that there is a channel.
ChannelPresent == rtcDataChannel # "null"

\* "this.dataChannel && this.dataChannel.readyState === 'open'"
ChannelReady == rtcDataChannel = "open"

NoStats == [phase |-> 0, bytes |-> 0, packets |-> 0]

FreshStats(ph) == [phase |-> ph, bytes |-> 0, packets |-> 0]

Call(fn, result, fin) == [fn |-> fn, result |-> result, finalized |-> fin]

\* A completion notification was given for the phase the statistics belong to.
Finalized(kind, stats) ==
  \E i \in 1..Len(completions) :
    completions[i].kind = kind /\ completions[i].phase = stats.phase

\* The delay a timer was set with.
DelayOf(tm) == IF tm.kind = "latencyTimeout" THEN 5000 ELSE rtcDuration

\* Timer i is due before every other pending timer that was set earlier.
CanFire(i) ==
  \A j \in 1..(i - 1) : DelayOf(rtcTimers[j]) > DelayOf(rtcTimers[i])

RTCInit ==
  /\ rtcDataChannel = "null"
  /\ rtcIsTestRunning = FALSE
  /\ downloadStats = NoStats
  /\ uploadStats = NoStats
  /\ rtcTimers = <<>>
  /\ uploadIntervals = {}
  /\ rtcStarts = 0
  /\ lastCall = Call("none", "none", FALSE)
  /\ completions = <<>>

\* initializePeerConnection (again, after close()) and createOffer: the data
\* channel is created; or ondatachannel hands one in.
RTCCreateChannel ==
  /\ rtcDataChannel = "null"
  /\ rtcDataChannel' = "connecting"
  /\ UNCHANGED <<mpVars, integVars, latVars, udVars, statVars, phaseVars, pingLoopVars, rtcIsTestRunning,
                 downloadStats, uploadStats, rtcTimers, uploadIntervals, rtcStarts, lastCall,
                 completions>>

\* The channel opens, or closes from the other side; onopen and onclose log.
RTCChannelState(to) ==
  /\ \/ rtcDataChannel = "connecting" /\ to = "open"
     \/ rtcDataChannel \in {"connecting", "open"} /\ to = "closed"
  /\ rtcDataChannel' = to
  /\ UNCHANGED <<mpVars, integVars, latVars, udVars, statVars, phaseVars, pingLoopVars, rtcIsTestRunning,
                 downloadStats, uploadStats, rtcTimers, uploadIntervals, rtcStarts, lastCall,
                 completions>>

\* startDownloadTest(duration)
RTCStartDownloadTest ==
  /\ rtcStarts < MaxStarts
  /\ IF ~ChannelReady
     THEN /\ lastCall' = Call("startDownloadTest", "false", FALSE)
          /\ UNCHANGED <<rtcIsTestRunning, downloadStats, rtcTimers, rtcStarts>>
     ELSE /\ rtcIsTestRunning' = TRUE
          /\ downloadStats' = FreshStats(rtcStarts + 1)
          /\ rtcTimers' = Append(rtcTimers, [kind |-> "stopDownload", phase |-> rtcStarts + 1])
          /\ rtcStarts' = rtcStarts + 1
          /\ lastCall' = Call("startDownloadTest", "true", FALSE)
  /\ UNCHANGED <<mpVars, integVars, latVars, udVars, statVars, phaseVars, pingLoopVars, rtcDataChannel,
                 uploadStats, uploadIntervals, completions>>

\* startUploadTest(duration)
RTCStartUploadTest ==
  /\ rtcStarts < MaxStarts
  /\ IF ~ChannelReady
     THEN /\ lastCall' = Call("startUploadTest", "false", FALSE)
          /\ UNCHANGED <<rtcIsTestRunning, uploadStats, rtcTimers, rtcStarts, uploadIntervals>>
     ELSE /\ rtcIsTestRunning' = TRUE
          /\ uploadStats' = FreshStats(rtcStarts + 1)
          /\ uploadIntervals' = uploadIntervals \cup {rtcStarts + 1}
          /\ rtcTimers' = Append(rtcTimers, [kind |-> "stopUpload", phase |-> rtcStarts + 1])
          /\ rtcStarts' = rtcStarts + 1
          /\ lastCall' = Call("startUploadTest", "true", FALSE)
  /\ UNCHANGED <<mpVars, integVars, latVars, udVars, statVars, phaseVars, pingLoopVars, rtcDataChannel,
                 downloadStats, completions>>

\* measureLatency(): resolves null at once without a channel, else sends a
\* ping and sets its 5 s timeout.  Its callers await it, so it is not called
\* again while an earlier call is pending.
RTCMeasureLatency ==
  /\ \A i \in 1..Len(rtcTimers) : rtcTimers[i].kind # "latencyTimeout"
  /\ IF ~ChannelReady
     THEN /\ lastCall' = Call("measureLatency", "null", FALSE)
          /\ UNCHANGED rtcTimers
     ELSE /\ rtcTimers' = Append(rtcTimers, [kind |-> "latencyTimeout", phase |-> 0])
          /\ lastCall' = Call("measureLatency", "pending", FALSE)
  /\ UNCHANGED <<mpVars, integVars, latVars, udVars, statVars, phaseVars, pingLoopVars, rtcDataChannel,
                 rtcIsTestRunning, downloadStats, uploadStats, uploadIntervals, rtcStarts,
                 completions>>

\* channel.onmessage -> handleIncomingData(data)
RTCHandleIncomingData ==
  /\ rtcDataChannel = "open"
  /\ downloadStats.packets < MaxPackets
  /\ IF ~rtcIsTestRunning
     THEN /\ lastCall' = Call("handleIncomingData", "ignored", Finalized("download", downloadStats))
          /\ UNCHANGED downloadStats
     ELSE /\ downloadStats' = [downloadStats EXCEPT !.bytes = @ + rtcPacketSize,
                                                    !.packets = @ + 1]
          /\ lastCall' = Call("handleIncomingData", "counted", Finalized("download", downloadStats))
  /\ UNCHANGED <<mpVars, integVars, latVars, udVars, statVars, phaseVars, pingLoopVars, rtcDataChannel,
                 rtcIsTestRunning, uploadStats, rtcTimers, uploadIntervals, rtcStarts,
                 completions>>

\* One turn of the upload interval of phase ph.
RTCUploadInterval(ph) ==
  /\ ph \in uploadIntervals
  /\ uploadStats.packets < MaxPackets
  /\ IF ~rtcIsTestRunning \/ rtcDataChannel # "open"
     THEN /\ uploadIntervals' = uploadIntervals \ {ph}
          /\ UNCHANGED uploadStats
     ELSE /\ uploadStats' = [uploadStats EXCEPT !.bytes = @ + rtcPacketSize, !.packets = @ + 1]
          /\ UNCHANGED uploadIntervals
  /\ UNCHANGED <<mpVars, integVars, latVars, udVars, statVars, phaseVars, pingLoopVars, rtcDataChannel,
                 rtcIsTestRunning, downloadStats, rtcTimers, rtcStarts, lastCall, completions>>

\* A timer fires: stopDownloadTest, stopUploadTest with clearInterval, or
\* the timeout of measureLatency.
RTCTimerFires(i) ==
  /\ i \in 1..Len(rtcTimers)
  /\ CanFire(i)
  /\ rtcTimers' = RemoveAt(rtcTimers, i)
  /\ LET tm == rtcTimers[i] IN
     CASE tm.kind = "stopDownload" ->
            /\ rtcIsTestRunning' = FALSE
            /\ completions' = Append(completions,
                 [kind |-> "download", phase |-> downloadStats.phase,
                  bytes |-> downloadStats.bytes, packets |-> downloadStats.packets])
            /\ UNCHANGED uploadIntervals
       [] tm.kind = "stopUpload" ->
            /\ rtcIsTestRunning' = FALSE
            /\ completions' = Append(completions,
                 [kind |-> "upload", phase |-> uploadStats.phase,
                  bytes |-> uploadStats.bytes, packets |-> uploadStats.packets])
            /\ uploadIntervals' = uploadIntervals \ {tm.phase}
       [] OTHER ->
            UNCHANGED <<rtcIsTestRunning, completions, uploadIntervals>>
  /\ UNCHANGED <<mpVars, integVars, latVars, udVars, statVars, phaseVars, pingLoopVars, rtcDataChannel,
                 downloadStats, uploadStats, rtcStarts, lastCall>>

\* close()
RTCClose ==
  /\ rtcDataChannel' = "null"
  /\ rtcIsTestRunning' = FALSE
  /\ lastCall' = Call("close", "done", FALSE)
  /\ UNCHANGED <<mpVars, integVars, latVars, udVars, statVars, phaseVars, pingLoopVars, downloadStats,
                 uploadStats, rtcTimers, uploadIntervals, rtcStarts, completions>>

RTCNext ==
  \/ RTCCreateChannel
  \/ \E to \in {"open", "closed"} : RTCChannelState(to)
  \/ RTCStartDownloadTest
  \/ RTCStartUploadTest
  \/ RTCMeasureLatency
  \/ RTCHandleIncomingData
  \/ \E ph \in 1..MaxStarts : RTCUploadInterval(ph)
  \/ \E i \in 1..(MaxStarts + 1) : RTCTimerFires(i)
  \/ RTCClose

-----------------------------------------------------------------------------
(***************************************************************************)
(* WebRTCSpeedTest.measureLatency: each call registers a message handler,  *)
(* sends a ping carrying its send time and sets a 5 s timer.  The replies  *)
(* and close() are the environment.                                        *)
(***************************************************************************)

\* A call: state "pending" | "resolved" | "stuck" (its timer callback threw
\* before resolve); sample 0 for null, else the number of the request whose
\* timestamp the latency was computed from; timer: its 5 s timer is pending.
LatRequest(state, sample, timer) == [state |-> state, sample |-> sample, timer |-> timer]

\* messageHandler of call k on a pong that echoes the timestamp of request id:
\* "if (response.type === 'pong') { latency = performance.now() -
\* response.timestamp; removeEventListener; resolve(latency) }"
OnPong(k, id) ==
  IF latRequests[k].state = "pending"
  THEN [latRequests[k] EXCEPT !.state = "resolved", !.sample = id]
  ELSE latRequests[k]

LatInit ==
  /\ latChannel = "open"
  /\ latRequests = <<>>
  /\ pongs = {}
  /\ timerFailed = FALSE

\* measureLatency(), called when no earlier call is still awaited.
LatMeasure ==
  /\ Len(latRequests) < MaxPings
  /\ \A k \in 1..Len(latRequests) : latRequests[k].state # "pending"
  /\ IF latChannel # "open"
     THEN /\ latRequests' = Append(latRequests, LatRequest("resolved", 0, FALSE))
          /\ UNCHANGED pongs
     ELSE /\ latRequests' = Append(latRequests, LatRequest("pending", 0, TRUE))
          /\ pongs' = pongs \cup {Len(latRequests) + 1}
  /\ UNCHANGED <<mpVars, integVars, udVars, statVars, phaseVars, pingLoopVars, rtcVars, latChannel,
                 timerFailed>>

\* The reply to request id arrives: every registered handler sees it.
LatPong(id) ==
  /\ id \in pongs
  /\ latChannel = "open"
  /\ pongs' = pongs \ {id}
  /\ latRequests' = [k \in 1..Len(latRequests) |-> OnPong(k, id)]
  /\ UNCHANGED <<mpVars, integVars, udVars, statVars, phaseVars, pingLoopVars, rtcVars, latChannel,
                 timerFailed>>

\* The 5 s timer of call k fires: "this.dataChannel.removeEventListener(...);
\* resolve(null)".  Without a data channel the first statement throws.
LatTimeout(k) ==
  /\ k \in 1..Len(latRequests)
  /\ latRequests[k].timer
  /\ \A j \in 1..(k - 1) : ~latRequests[j].timer
  /\ IF latChannel = "null"
     THEN /\ timerFailed' = TRUE
          /\ latRequests' = [latRequests EXCEPT ![k].timer = FALSE,
                               ![k].state = IF @ = "pending" THEN "stuck" ELSE @]
     ELSE /\ UNCHANGED timerFailed
          /\ latRequests' = [latRequests EXCEPT ![k].timer = FALSE,
                               ![k].state = IF @ = "pending" THEN "resolved" ELSE @]
  /\ UNCHANGED <<mpVars, integVars, udVars, statVars, phaseVars, pingLoopVars, rtcVars, latChannel,
                 pongs>>

\* close(): the channel is closed and this.dataChannel = null.
LatClose ==
  /\ latChannel' = "null"
  /\ UNCHANGED <<mpVars, integVars, udVars, statVars, phaseVars, pingLoopVars, rtcVars, latRequests,
                 pongs, timerFailed>>

\* The channel closes from the other side.
LatChannelCloses ==
  /\ latChannel = "open"
  /\ latChannel' = "closed"
  /\ UNCHANGED <<mpVars, integVars, udVars, statVars, phaseVars, pingLoopVars, rtcVars, latRequests,
                 pongs, timerFailed>>

LatNext ==
  \/ LatMeasure
  \/ \E id \in 1..MaxPings : LatPong(id)
  \/ \E k \in 1..MaxPings : LatTimeout(k)
  \/ LatClose
  \/ LatChannelCloses

-----------------------------------------------------------------------------
(***************************************************************************)
(* UDPSpeedTest.startDownloadTest from the creation of its EventSource:    *)
(* the messages, the error event and the timeout timer.                    *)
(***************************************************************************)

\* The size field of a 'data' message; 0 stands for a missing or zero size.
DataSizes == {0, 512}

NoResults == [bytesReceived |-> -1, packetsReceived |-> -1]

\* resolve / reject: a promise settles once, later calls have no effect.
Settle(promise, outcome) == IF promise = "pending" THEN outcome ELSE promise

\* Variant of ErrorCloses in which onerror leaves the event source open.
ErrorLeavesOpen(source) == source

\* eventSource.onerror: "eventSource.close(); reject(error)"
ErrorCloses(source) == "closed"

UDInit ==
  /\ eventSource = "none"
  /\ dlPromise = "none"
  /\ dlTimeout = FALSE
  /\ bytesReceived = 0
  /\ packetsReceived = 0
  /\ dlResults = NoResults
  /\ dlCompleteCalls = 0

\* startDownloadTest() with serverInfo present: the EventSource, the
\* counters, the promise and the timer.
UDStartDownloadTest ==
  /\ eventSource = "none"
  /\ eventSource' = "open"
  /\ dlPromise' = "pending"
  /\ dlTimeout' = TRUE
  /\ UNCHANGED <<mpVars, integVars, latVars, statVars, phaseVars, pingLoopVars, rtcVars,
                 bytesReceived, packetsReceived, dlResults, dlCompleteCalls>>

\* eventSource.onmessage with a 'data' message; a closed source delivers
\* no events.
UDData(size) ==
  /\ eventSource = "open"
  /\ packetsReceived < MaxPackets
  /\ bytesReceived' = bytesReceived + (IF size # 0 THEN size ELSE packetSize)
  /\ packetsReceived' = packetsReceived + 1
  /\ UNCHANGED <<mpVars, integVars, latVars, statVars, phaseVars, pingLoopVars, rtcVars,
                 eventSource, dlPromise, dlTimeout, dlResults, dlCompleteCalls>>

\* eventSource.onmessage with a 'complete' message.  callbackOk: the
\* onDownloadComplete callback returns; if it throws, the catch logs and
\* resolve is not reached.
UDComplete(callbackOk) ==
  /\ eventSource = "open"
  /\ eventSource' = "closed"
  /\ dlCompleteCalls' = dlCompleteCalls + 1
  /\ IF callbackOk
     THEN /\ dlPromise' = Settle(dlPromise, "complete")
          /\ dlResults' = IF dlPromise = "pending"
                          THEN [bytesReceived |-> bytesReceived,
                                packetsReceived |-> packetsReceived]
                          ELSE dlResults
     ELSE UNCHANGED <<dlPromise, dlResults>>
  /\ UNCHANGED <<mpVars, integVars, latVars, statVars, phaseVars, pingLoopVars, rtcVars,
                 dlTimeout, bytesReceived, packetsReceived>>

\* eventSource.onerror
UDError ==
  /\ eventSource = "open"
  /\ eventSource' = ErrorCloses(eventSource)
  /\ dlPromise' = Settle(dlPromise, "error")
  /\ UNCHANGED <<mpVars, integVars, latVars, statVars, phaseVars, pingLoopVars, rtcVars,
                 dlTimeout, bytesReceived, packetsReceived, dlResults, dlCompleteCalls>>

\* The timer set with testDuration + 5000 fires.
UDTimeout ==
  /\ dlTimeout
  /\ dlTimeout' = FALSE
  /\ eventSource' = "closed"
  /\ dlPromise' = Settle(dlPromise, "timeout")
  /\ UNCHANGED <<mpVars, integVars, latVars, statVars, phaseVars, pingLoopVars, rtcVars,
                 bytesReceived, packetsReceived, dlResults, dlCompleteCalls>>

UDNext ==
  \/ UDStartDownloadTest
  \/ \E size \in DataSizes : UDData(size)
  \/ \E callbackOk \in BOOLEAN : UDComplete(callbackOk)
  \/ UDError
  \/ UDTimeout

\* No phase model is in use.
MeasIdle ==
  /\ StatIdle
  /\ phImpl = "webrtc"
  /\ phDir = "download"
  /\ PhaseIdle
  /\ PingLoopIdle
  /\ RTCInit
  /\ LatInit
  /\ UDInit

-----------------------------------------------------------------------------

Init == MPInit /\ IntegInit /\ MeasIdle

Next == MPNext

Spec == Init /\ [][Next]_vars

SpecInteg == Init /\ [][IntegNext]_vars

\* Timers that were set fire, and measureLatency settles by its reply or its
\* own timer; what the remote side sends is not forced.
IntegTimersFire ==
  /\ WF_vars(ConnectTimeout)
  /\ WF_vars(PingMeasured)
  /\ WF_vars(PingNext)
  /\ WF_vars(IntegStartDownloadTest)
  /\ WF_vars(stopDownloadTest)
  /\ WF_vars(IntegStartUploadTest)
  /\ WF_vars(stopUploadTest)

SpecIntegLive == Init /\ [][IntegNext]_vars /\ IntegTimersFire

\* Every wait of a run is ended by a timer: the 5 s timeout of each ping, the
\* stop timer or the timeout of a download or upload, the pause between two
\* protocols of a comparison.
TimersFire ==
  /\ WF_vars(\E i \in 1..Len(tests), ok \in BOOLEAN : PingSettle(i, ok))
  /\ WF_vars(\E i \in 1..Len(tests), ok \in BOOLEAN : DownloadSettle(i, ok))
  /\ WF_vars(\E i \in 1..Len(tests), ok \in BOOLEAN : UploadSettle(i, ok))
  /\ WF_vars(PauseDone)

SpecLive == Init /\ [][Next]_vars /\ TimersFire

InitStats ==
  MPInit /\ IntegInit /\ StatInit /\ phImpl = "webrtc" /\ phDir = "download" /\ PhaseIdle
    /\ PingLoopIdle /\ RTCInit /\ LatInit /\ UDInit

SpecStats == InitStats /\ [][StatNext]_vars

InitPhase ==
  MPInit /\ IntegInit /\ StatIdle /\ PhaseInit /\ PingLoopIdle /\ RTCInit /\ LatInit /\ UDInit

SpecPhase == InitPhase /\ [][PhaseNext]_vars

InitPing ==
  MPInit /\ IntegInit /\ StatIdle /\ phImpl = "webrtc" /\ phDir = "download" /\ PhaseIdle
    /\ PingInit /\ RTCInit /\ LatInit /\ UDInit

SpecPing == InitPing /\ [][PingNextStep]_vars

InitRTC ==
  MPInit /\ IntegInit /\ StatIdle /\ phImpl = "webrtc" /\ phDir = "download" /\ PhaseIdle
    /\ PingLoopIdle /\ RTCInit /\ LatInit /\ UDInit

SpecRTC == InitRTC /\ [][RTCNext]_vars

SpecLatency == Init /\ [][LatNext]_vars

SpecUDPDownload == Init /\ [][UDNext]_vars

-----------------------------------------------------------------------------
(***************************************************************************)
(* Properties.                                                             *)
(***************************************************************************)

AvailSet == Range(availableProtocols)

\* The fixed priority udp > webrtc > http.
Rank == [udp |-> 1, webrtc |-> 2, http |-> 3]
PriorityOrder == <<"udp", "webrtc", "http">>

\* The highest-ranked protocol of S, http when S has none.
Best(S) ==
  LET C == (S \cap Protocols) \cup {"http"} IN
  CHOOSE p \in C : \A q \in C : Rank[p] <= Rank[q]

\* The highest-ranked protocol of S ranked below p.
NextRanked(p, S) == Best({q \in S \cap Protocols : Rank[q] > Rank[p]})

\* S in priority order.
InPriorityOrder(S) ==
  LET In(p) == p \in S IN SelectSeq(PriorityOrder, In)

Phases == {"ping", "download", "upload"}

\* C1: in runUDPTest and runWebRTCTest the three phases never overlap: the
\* download promise exists only once the ping promise has settled, the upload
\* promise only once the download promise has settled, and at most one of the
\* three is pending.
C1_PhasesSequential ==
  \A i \in 1..Len(tests) :
    LET t == tests[i] IN
    /\ t.download # "idle" => Settled(t.ping)
    /\ t.upload # "idle" => Settled(t.download)
    /\ Cardinality({ph \in Phases : t[ph] = "pending"}) <= 1

C1_Witness ==
  \E i \in 1..Len(tests) :
    /\ tests[i].proto = "udp"
    /\ tests[i].ping = "resolved"
    /\ tests[i].download = "resolved"
    /\ tests[i].upload = "pending"

\* C3: in comparison mode at most one protocol's test is in progress, it is
\* the test of the protocol attempted last, and the loop is suspended on it.
C3_OneProtocolAtATime ==
  runKind = "comparison" =>
    /\ Len(tests) <= 1
    /\ tests # <<>> =>
         /\ runPc = "test"
         /\ attempted # <<>>
         /\ tests[1].proto = attempted[Len(attempted)]
         /\ Len(outcomes) = Len(attempted) - 1

C3_Witness ==
  /\ runKind = "comparison"
  /\ Len(attempted) >= 2
  /\ Len(outcomes) = 1
  /\ Len(tests) = 1
  /\ tests[1].proto = "udp"
  /\ tests[1].ping = "pending"

\* C4: with the selection 'auto', getSelectedProtocol returns the
\* highest-ranked available protocol (udp > webrtc > http, http when none is
\* available), and that is the protocol a single-mode run starts with.
C4_AutoSelectsBest ==
  /\ currentProtocol = "auto" => getSelectedProtocol = Best(AvailSet)
  /\ (runKind = "single" /\ runSel = "auto") => attempted[1] = Best(Range(runAvail))

C4_Witness ==
  /\ runKind = "single"
  /\ runSel = "auto"
  /\ "udp" \notin Range(runAvail)
  /\ "webrtc" \in Range(runAvail)
  /\ attempted[1] = "webrtc"

\* C5: a finished comparison run has tested the available protocols in the
\* order udp, webrtc, http, each of them once.
C5_ComparisonPriorityOrder ==
  (runKind = "comparison" /\ runPc = "done") => attempted = InPriorityOrder(AvailSet)

\* C6: in single mode every protocol run is a member of availableProtocols
\* once initialize() has completed; before that only 'http' can be run
\* without being in the list.
C6_SingleRunsAvailable ==
  runKind = "single" =>
    \A i \in 1..Len(attempted) :
      \/ attempted[i] \in AvailSet
      \/ (attempted[i] = "http" /\ initDone = 0)

C6_Witness ==
  /\ runKind = "single"
  /\ initDone > 0
  /\ runSel = "webrtc"
  /\ attempted = <<"webrtc">>
  /\ runPc = "done"

\* C6, at any time: in single mode every protocol run is a member of
\* availableProtocols.
C6_Original ==
  runKind = "single" => \A i \in 1..Len(attempted) : attempted[i] \in AvailSet

\* C7: in single mode, when an attempted protocol other than http fails, the
\* next protocol attempted is the next-ranked available one.
C7_FallbackChain ==
  (runKind = "single" /\ runPc = "done") =>
    \A i \in 1..Len(attempted) :
      (outcomes[i] # "ok" /\ attempted[i] # "http") =>
        /\ i < Len(attempted)
        /\ attempted[i + 1] = NextRanked(attempted[i], AvailSet)

\* C8: with available set {http, udp} and selection 'auto', a single-mode run
\* attempts udp first and, when udp fails, http next; the sequence of
\* attempts and the order of the results are a function of how udp ended.
C8_FallbackDeterministic ==
  (runKind = "single" /\ runPc = "done" /\ runSel = "auto"
     /\ Range(runAvail) = {"http", "udp"}) =>
    /\ attempted[1] = "udp"
    /\ attempted = IF outcomes[1] = "ok" THEN <<"udp">> ELSE <<"udp", "http">>
    /\ Len(returned.entries) = 1
    /\ returned.entries[1].protocol = attempted[Len(attempted)]

\* C9: runComparisonTest returns one result entry per attempted protocol,
\* whether its test measured something, failed or threw, and every protocol of
\* availableProtocols has been attempted when it returns.
C9_OneEntryPerProtocol ==
  (runKind = "comparison" /\ runPc = "done") =>
    /\ attempted = availableProtocols
    /\ Len(outcomes) = Len(attempted)
    /\ {results[i].protocol : i \in 1..Len(results)} = Range(attempted)
    /\ \A i, j \in 1..Len(results) : results[i].protocol = results[j].protocol => i = j
    /\ returned = ReturnValue(results)

C9_Witness ==
  /\ runKind = "comparison"
  /\ runPc = "done"
  /\ \E i \in 1..Len(attempted) : outcomes[i] = "failed" /\ i < Len(attempted)
  /\ \E i \in 1..Len(results) : NoMeasurement(results[i])

\* C2: in the page-level WebRTC sequence the upload is never started while
\* the download is still running, and the download is never started while the
\* ping loop is still running.
C2_IntegrationSequential ==
  [][/\ ulStop' > ulStop => dlStop = 0
     /\ dlStop' > dlStop => pingPc = "idle"]_vars

\* C11: in runUDPTest and runWebRTCTest a failed or timed-out ping or download
\* is followed by the remaining phases, and the test returns a result object:
\* a test that has returned has settled all three phases, a test in progress
\* has begun the phase after a rejected one, and no attempt of udp or webrtc
\* ends by throwing.
C11_PhaseFailureNotFatal ==
  /\ lastTest.proto \in {"udp", "webrtc"} =>
       /\ lastTest.returned
       /\ \A ph \in Phases : Settled(lastTest[ph])
  /\ \A i \in 1..Len(tests) :
       /\ tests[i].ping = "rejected" => tests[i].download # "idle"
       /\ tests[i].download = "rejected" => tests[i].upload # "idle"
  /\ \A i \in 1..Len(outcomes) :
       attempted[i] \in {"udp", "webrtc"} => outcomes[i] # "threw"
  /\ returned.kind # "thrown"

C11_Witness ==
  /\ lastTest.proto = "udp"
  /\ lastTest.ping = "rejected"
  /\ lastTest.download = "rejected"
  /\ lastTest.upload = "resolved"
  /\ returned.kind = "value"
  /\ returned.entries[1].upload = "value"

\* The sum of |s[i] - s[i-1]| over the positions i of the set I.
RECURSIVE SumAbsDiff(_, _)
SumAbsDiff(s, I) ==
  IF I = {} THEN 0
  ELSE LET i == CHOOSE j \in I : TRUE IN
       Abs(s[i] - s[i - 1]) + SumAbsDiff(s, I \ {i})

\* C12: for n >= 2 samples the reported jitter is the sum of |s[i] - s[i-1]|
\* over the n-1 consecutive pairs divided by n-1; for [20,22,19,30] it is 16/3.
C12_JitterIsMeanAbsDiff ==
  ("jitter" \in DOMAIN pingReport /\ Len(pingResults) >= 2) =>
    /\ pingReport.jitter =
         Frac(SumAbsDiff(pingResults, 2..Len(pingResults)), Len(pingResults) - 1)
    /\ pingResults = <<20, 22, 19, 30>> => pingReport.jitter = [num |-> 16, den |-> 3]

C12_Witness ==
  /\ pingResults = <<20, 22, 19, 30>>
  /\ "jitter" \in DOMAIN pingReport
  /\ pingReport.jitter = [num |-> 16, den |-> 3]
  /\ pingReport.by = "udp"

\* C13: for fewer than 2 samples the jitter is reported as undefined, never
\* as the number 0.
C13_JitterUndefinedBelowTwo ==
  (pingReport # NoReport /\ Len(pingResults) < 2) =>
    ("jitter" \in DOMAIN pingReport => pingReport.jitter = Undefined)


-----------------------------------------------------------------------------
(***************************************************************************)
(* Download and upload phases (SpecPhase)                                  *)
(***************************************************************************)

\* A figure that carries a throughput: a progress figure or normal results.
HasSpeed(f) == f.by \in {"progress", "stop", "complete"}

\* The elapsed time a figure's throughput was computed with.
FigElapsed(f) == IF f.by = "progress" THEN f.elapsed ELSE f.duration

MbpsAsStated(f) ==
  /\ f.speedMbps = Frac(f.bytes * 8, FigElapsed(f) * 1000)
  /\ f.speedMbps.den > 0
  /\ f.speedMbps.num >= 0

\* C14: for every byte count B and elapsed time T > 0 the progress and the
\* final throughput of a phase are (B*8)/(T_seconds*1000000) and are not
\* negative, in the WebRTC and in the UDP implementation.
C14_ThroughputFormula ==
  /\ (HasSpeed(phProgress) /\ FigElapsed(phProgress) > 0) => MbpsAsStated(phProgress)
  /\ (HasSpeed(phFinal) /\ FigElapsed(phFinal) > 0) => MbpsAsStated(phFinal)

\* A phase that moved data has ended with results after progress reports.
C14_Witness ==
  /\ HasSpeed(phFinal)
  /\ phFinal.bytes > 0
  /\ phFinal.duration > 0
  /\ HasSpeed(phProgress)
  /\ phProgress.elapsed > 0

\* C15: a throughput computed when the elapsed time is 0 is reported as
\* undefined; nothing is divided by zero.
C15_ZeroElapsedUndefined ==
  /\ (HasSpeed(phProgress) /\ FigElapsed(phProgress) = 0) => phProgress.speedMbps = Undefined
  /\ (HasSpeed(phFinal) /\ FigElapsed(phFinal) = 0) => phFinal.speedMbps = Undefined

\* C16: the elapsed time of a phase's results runs from the first byte sent
\* or received in the phase, not from the moment the phase was requested.
C16_ElapsedFromFirstByte ==
  (/\ HasSpeed(phFinal)
   /\ arrivals # <<>>
   /\ arrivals[1] <= phFinal.at)
    => phFinal.duration = phFinal.at - arrivals[1]

\* C17: a 10000 ms download that receives exactly three payloads of 16384
\* bytes, 100, 4000 and 9500 ms after it was requested, reports an elapsed time
\* of about 9500 ms, 49152 bytes, the throughput 49152*8/(9.5*1000000) and the
\* status Completed.
C17_PartialWindowScenario ==
  (/\ phImpl = "webrtc"
   /\ phDir = "download"
   /\ phPc = "ended"
   /\ startTime = 0
   /\ arrivals = <<100, 4000, 9500>>)
    => /\ HasSpeed(phFinal)
       /\ phFinal.bytes = 49152
       /\ Abs(phFinal.duration - 9500) <= 100
       /\ phFinal.speedMbps = Frac(49152 * 8, 9500 * 1000)
       /\ "status" \in DOMAIN phFinal
       /\ phFinal.status = "Completed"

\* C18: a download that ends by its timeout yields results holding the bytes
\* and packets received until then, marked as timed out.
C18_TimeoutKeepsData ==
  phFinal.by = "timeout"
    => /\ "bytes" \in DOMAIN phFinal
       /\ phFinal.bytes = bytes
       /\ phFinal.packets = packets
       /\ "status" \in DOMAIN phFinal
       /\ phFinal.status = "TimedOut"

\* C19: when the data channel closes during a WebRTC download or upload the
\* phase ends at that moment with what it collected, marked failed; it does
\* not run on to its configured duration and report a normal completion.
C19_ChannelCloseEndsPhase ==
  /\ (/\ phImpl = "webrtc"
      /\ phPc = "running"
      /\ link = "closed")
       => now = closedAt
  /\ (/\ phImpl = "webrtc"
      /\ phPc = "ended"
      /\ closedAt >= startTime
      /\ closedAt < phFinal.at)
       => phFinal.by # "stop"

\* C20: in an upload a send that fails adds nothing to the counters: bytesSent
\* is always the payload size times the number of sends that did not fail, and
\* packetsSent is that number.
C20_FailedSendNotCounted ==
  phDir = "upload"
    => /\ bytes = PayloadSize * sendsOk
       /\ packets = sendsOk

\* Sends have failed and sends have succeeded in one upload.
C20_Witness ==
  /\ phDir = "upload"
  /\ sendsFailed > 0
  /\ sendsOk > 0

\* C21: after a send of an upload has failed the phase goes on: the later
\* scheduled sends are still attempted until the configured duration is over.
C21_UploadContinuesAfterFailedSend ==
  (/\ phDir = "upload"
   /\ phPc = "running"
   /\ sendsFailed > 0)
    => sending

\* C22: in an upload the bytes of a payload are counted when the payload is
\* sent, whether or not its response has arrived: the total covers every
\* payload handed to the transport that has not failed.
C22_CountedAtSendTime ==
  (/\ phDir = "upload"
   /\ phPc = "running")
    => bytes = PayloadSize * (sendsOk + inflight)

-----------------------------------------------------------------------------
(***************************************************************************)
(* The ping loop (SpecPing)                                                *)
(***************************************************************************)

\* The loop has run through all its turns.
PingLoopOver == pgPc \in {"done", "threw"} /\ pgReady

-----------------------------------------------------------------------------
(***************************************************************************)
(* Releasing the connections                                               *)
(***************************************************************************)

\* Calling MultiProtocolSpeedTest.disconnect() now would change nothing.
DisconnectChangesNothing == ENABLED (Disconnect /\ UNCHANGED vars)

\* C24: disconnect() is idempotent: a second call leaves the state the first
\* call produced.
C24_DisconnectIdempotent == [][Disconnect => DisconnectChangesNothing']_vars

-----------------------------------------------------------------------------
(***************************************************************************)
(* The WebRTCSpeedTest object (SpecRTC)                                    *)
(***************************************************************************)

RTCCallStep == RTCStartDownloadTest \/ RTCStartUploadTest \/ RTCMeasureLatency

\* What a call reports when it fails.
FailureOf(fn) == IF fn = "measureLatency" THEN "null" ELSE "false"

\* C25: startDownloadTest, startUploadTest and measureLatency called while the
\* data channel is absent or not open report failure (false, false, null) and
\* leave isTestRunning, the statistics and the pending timers as they were.
C25_CallsFailWithoutChannel ==
  [][(RTCCallStep /\ rtcDataChannel # "open")
       => /\ lastCall'.result = FailureOf(lastCall'.fn)
          /\ UNCHANGED <<rtcIsTestRunning, downloadStats, uploadStats, rtcTimers,
                         uploadIntervals>>]_vars

\* A call has failed on a channel that is not open while a phase with data
\* and a pending timer was in progress.
C25_Witness ==
  /\ lastCall.fn \in {"startDownloadTest", "startUploadTest", "measureLatency"}
  /\ lastCall.result = FailureOf(lastCall.fn)
  /\ rtcDataChannel # "open"
  /\ rtcIsTestRunning
  /\ downloadStats.bytes > 0
  /\ rtcTimers # <<>>

\* C28: once a download has been finalized, recording further received bytes
\* for it fails with an illegal-state error and its totals never change again,
\* also while a later upload is active on the channel.
C28_FinalizedDownloadReadOnly ==
  /\ \A i \in 1..Len(completions) :
       (completions[i].kind = "download" /\ completions[i].phase = downloadStats.phase)
         => /\ downloadStats.bytes = completions[i].bytes
            /\ downloadStats.packets = completions[i].packets
  /\ (lastCall.fn = "handleIncomingData" /\ lastCall.finalized)
       => lastCall.result = "IllegalState"

\* C29: every started download or upload phase is finalized exactly once:
\* no phase gets two completion notifications, and once no stop timer is
\* pending every started phase has got one.
C29_FinalizedExactlyOnce ==
  /\ \A i, j \in 1..Len(completions) :
       (completions[i].kind = completions[j].kind
          /\ completions[i].phase = completions[j].phase) => i = j
  /\ (\A i \in 1..Len(rtcTimers) : rtcTimers[i].kind = "latencyTimeout")
       => \A ph \in 1..rtcStarts :
            \E i \in 1..Len(completions) : completions[i].phase = ph

-----------------------------------------------------------------------------
(***************************************************************************)
(* Termination of a run (SpecLive)                                         *)
(***************************************************************************)

\* C26: every call of runSpeedTest eventually settles, with a result or an
\* exception, whatever the remote side does, because a timer ends every wait.
C26_RunSettles ==
  (runPc \notin {"idle", "done"}) ~> (runPc = "done" /\ returned.kind \in {"value", "thrown"})

\* A run has settled although the WebRTC download and upload were never
\* started and ended by their timeouts.
C26_Witness ==
  /\ runPc = "done"
  /\ returned.kind = "value"
  /\ lastTest.proto = "webrtc"
  /\ lastTest.download = "rejected"
  /\ lastTest.upload = "rejected"

-----------------------------------------------------------------------------
(***************************************************************************)
(* Abort of a comparison run                                               *)
(***************************************************************************)

\* The upload of the second protocol of a comparison run is in progress.
SecondUploadPending ==
  /\ runKind = "comparison"
  /\ runPc = "test"
  /\ Len(attempted) = 2
  /\ \E i \in 1..Len(tests) : tests[i].proto = attempted[2] /\ tests[i].upload = "pending"

\* The upload of the second protocol is marked aborted, in the test or in
\* the report of the run.
SecondUploadAborted ==
  \/ \E i \in 1..Len(tests) : tests[i].proto = attempted[2] /\ tests[i].upload = "aborted"
  \/ /\ runPc = "done"
     /\ returned.kind = "value"
     /\ Len(returned.entries) >= 2
     /\ "upload" \in DOMAIN returned.entries[2]
     /\ returned.entries[2].upload = "aborted"

\* C27: an abort during the upload of the second protocol of a comparison run
\* ends that upload with the status Aborted, and the report keeps the complete
\* result of the first protocol.
C27_AbortMidUpload ==
  [][(Disconnect /\ SecondUploadPending)
       => (SecondUploadAborted' /\ results' = results)]_vars

-----------------------------------------------------------------------------
(***************************************************************************)
(* Fallback of the page-level WebRTC test (SpecInteg)                      *)
(***************************************************************************)

\* C30: runWebRTCSpeedTest starts the WebRTC phase sequence (and returns
\* true) exactly when the signaling connection was opened and the peer
\* connection was created; otherwise it starts no WebRTC phase (and returns
\* false), so that the HTTP test is used.
C30_WebRTCOnlyWhenInitialized ==
  [][runWebRTCSpeedTest
       => ((pingPc' # "idle" \/ dlStart' # dlStart)
             <=> (loadPc = "ready" /\ peerConnection))]_vars

-----------------------------------------------------------------------------
(***************************************************************************)
(* Availability of HTTP                                                    *)
(***************************************************************************)

\* C31: once initialize() has run, 'http' is among the available protocols,
\* however the WebRTC and the UDP initialization ended.
C31_HTTPAlwaysAvailable ==
  initDone > 0 => "http" \in Range(availableProtocols)

\* initialize() has run although the browser has both clients and neither
\* WebRTC nor UDP became available.
C31_Witness ==
  /\ initDone > 0
  /\ hasRTC
  /\ hasUDPClass
  /\ Range(availableProtocols) = {"http"}

-----------------------------------------------------------------------------
(***************************************************************************)
(* Echo requests and their replies (SpecLatency)                           *)
(***************************************************************************)

\* C32: every echo request gets at most one sample and only from its own
\* reply: the reply to a request that has timed out is never recorded as the
\* sample of a later request.
C32_SampleFromOwnReply ==
  \A k \in 1..Len(latRequests) :
    latRequests[k].sample # 0 => latRequests[k].sample = k

\* C38: a pending measureLatency call always gets resolved, also when close()
\* comes between the request and its reply or timeout: no timer callback
\* fails on the missing data channel and no call is left unresolved by it.
C38_LatencyResolvesAfterClose ==
  /\ ~timerFailed
  /\ \A k \in 1..Len(latRequests) : latRequests[k].state # "stuck"

-----------------------------------------------------------------------------
(***************************************************************************)
(* Overlapping tests on one WebRTCSpeedTest object (SpecRTC)               *)
(***************************************************************************)

\* C33: isTestRunning is cleared only by the end of the test that set it:
\* when a stop timer clears the flag, the stop timer of the test started
\* last (the one that set the flag) is not left pending.
C33_StopTimerEndsOwnTest ==
  [][(rtcIsTestRunning /\ ~rtcIsTestRunning' /\ Len(rtcTimers') < Len(rtcTimers))
       => \A i \in 1..Len(rtcTimers') : rtcTimers'[i].phase # rtcStarts]_vars

-----------------------------------------------------------------------------
(***************************************************************************)
(* The page-level WebRTC sequence: upload, Status and isConnected          *)
(***************************************************************************)

\* C34: in one run of the integration the upload test is started at most
\* once, and there are never two upload tests running at the same time.
C34_UploadStartedOnce ==
  /\ ulStarted <= 1
  /\ ulStop <= 1

\* C35: Status is "Done" only when no download or upload test of the
\* WebRTCSpeedTest object is still running.
C35_DoneOnlyAfterUpload ==
  Status = "Done" => ~isTestRunning

\* C36: once runWebRTCSpeedTest() has returned true, Status eventually
\* becomes "Done", provided that the timers that were set fire and unless
\* disconnect() drops the speed test object first.
C36_RunReachesDone ==
  (runResult = "true") ~> (Status = "Done" \/ speedTest = "null")

\* C40: once initialize() has returned false, isConnected is false and
\* stays false.
C40_FailedAttemptStaysDisconnected ==
  loadPc = "failed" => ~isConnected

-----------------------------------------------------------------------------
(***************************************************************************)
(* Packet numbers of the UDP upload (SpecPhase)                            *)
(***************************************************************************)

\* C37: within one UDP upload test the packet numbers sent in the
\* X-Packet-Number header are pairwise distinct.
C37_PacketNumbersDistinct ==
  \A i, j \in 1..Len(packetNumbers) :
    i # j => packetNumbers[i] # packetNumbers[j]

-----------------------------------------------------------------------------
(***************************************************************************)
(* The outcome of the UDP download (SpecUDPDownload)                       *)
(***************************************************************************)

DownloadSettled == dlPromise \in {"complete", "error", "timeout"}

\* C39: a UDP download ends in exactly one of complete, error and timeout:
\* the event source is closed whenever the promise is settled, a settled
\* promise keeps its outcome, no message changes the counters, the results
\* or the completion callback count after it, and once the timeout timer
\* has fired the promise is settled.
C39_DownloadEndsOnce ==
  [][/\ DownloadSettled' => eventSource' = "closed"
     /\ DownloadSettled =>
          /\ dlPromise' = dlPromise
          /\ bytesReceived' = bytesReceived
          /\ packetsReceived' = packetsReceived
          /\ dlResults' = dlResults
          /\ dlCompleteCalls' = dlCompleteCalls
     /\ (eventSource' # "none" /\ ~dlTimeout') => DownloadSettled']_vars

\* The download was rejected by the error event after payloads had been
\* counted, and the timeout timer has fired since.
C39_Witness ==
  /\ dlPromise = "error"
  /\ packetsReceived > 0
  /\ ~dlTimeout
=============================================================================
